---- MODULE Spec2Model ----
(***************************************************************************)
(* A model of IPython/config/loader.py: the Config mapping (attribute      *)
(* based dict with section keys, auto-vivification and recursive merge),   *)
(* the python-file loader with load_subconfig, and the key=value command   *)
(* line loader.                                                            *)
(*                                                                         *)
(* Python objects live in a heap: a Config is an address, its dict is      *)
(* heap[address], and a stored value is either a leaf or the address of    *)
(* another Config, so that object identity and aliasing are visible.       *)
(* Strings (keys, tokens) are sequences of one-character strings.          *)
(* The name __builtin__ used by the source is read as the builtins module. *)
(***************************************************************************)
EXTENDS Integers, Sequences, FiniteSets, TLC

\* ------------------------------------------------------------------ bounds
\* Number of Config objects the heap can hold.
MaxObj == 4
\* Number of calls made on the Config objects in one run.
MaxOps == 3
\* Number of statements in a configuration script.
MaxScript == 2
\* Number of command line tokens.
MaxArgs == 2
\* Nested loads the interpreter's call stack has room for.
MaxDepth == 3

\* ------------------------------------------------------------------ values
IntV(i) == [t |-> "int", n |-> i, s |-> <<>>]
StrV(str) == [t |-> "str", n |-> 0, s |-> str]
CfgV(a) == [t |-> "cfg", n |-> a, s |-> <<>>]
BuiltinV(name) == [t |-> "builtin", n |-> 0, s |-> name]
NoneV == [t |-> "none", n |-> 0, s |-> <<>>]

\* isinstance(value, Config)
IsConfig(v) == v.t = "cfg"

\* The empty dict: a function with an empty domain.
EmptyDict == [k \in {} |-> NoneV]

\* An update in which the keys d already holds keep their values.
DictUpdateKeep(d, upd) ==
  [k \in DOMAIN d \cup DOMAIN upd |-> IF k \in DOMAIN d THEN d[k] ELSE upd[k]]

\* dict.update(d, upd): the keys of upd overwrite those of d.
DictUpdate(d, upd) ==
  [k \in DOMAIN d \cup DOMAIN upd |-> IF k \in DOMAIN upd THEN upd[k] ELSE d[k]]

\* dict.__delitem__ on a key the dict holds.
DictDel(d, key) == [k \in DOMAIN d \ {key} |-> d[k]]

\* ------------------------------------------------------------------ characters
LowerChars ==
  << "a","b","c","d","e","f","g","h","i","j","k","l","m",
     "n","o","p","q","r","s","t","u","v","w","x","y","z" >>
UpperChars ==
  << "A","B","C","D","E","F","G","H","I","J","K","L","M",
     "N","O","P","Q","R","S","T","U","V","W","X","Y","Z" >>
DigitChars == << "0","1","2","3","4","5","6","7","8","9" >>

SeqRange(sq) == { sq[i] : i \in 1..Len(sq) }

\* str.upper() of one character: lower-case letters map to upper case, every
\* other character maps to itself.
Upper(c) ==
  IF \E i \in 1..26 : LowerChars[i] = c
  THEN UpperChars[CHOOSE i \in 1..26 : LowerChars[i] = c]
  ELSE c

\* Names of the builtins module that occur in the model's inputs.
BuiltinNames == { <<"l","e","n">>, <<"N","o","n","e">> }

\* hasattr(__builtin__, key)
IsBuiltin(key) == key \in BuiltinNames

\* Config._is_section_key, for a key that has a first character (key[0] of
\* the empty string raises IndexError, which the callers below model).
_is_section_key(key) == Upper(key[1]) = key[1] /\ key[1] # "_"

\* ------------------------------------------------------------------ heap
\* A store is a heap of Config dicts and the number of allocated objects.
\* Results of operations: the new store, the returned value and the raised
\* exception ("none" when the call returns; "bound" when the model's heap is
\* exhausted, which disables the calling action).
Res(st, ret, exc) == [st |-> st, ret |-> ret, exc |-> exc]

\* Config(): a new, empty Config object. The heap holds as many objects as its
\* domain has addresses.
NewConfig(st) ==
  IF st.n >= Cardinality(DOMAIN st.h)
  THEN Res(st, NoneV, "bound")
  ELSE Res([h |-> [st.h EXCEPT ![st.n + 1] = EmptyDict], n |-> st.n + 1],
           CfgV(st.n + 1), "none")

\* A __getitem__ that auto-vivifies but forgets to store the new section.
GetItemNoStore(st, c, key) ==
  IF IsBuiltin(key) THEN Res(st, BuiltinV(key), "none")
  ELSE IF key = <<>> THEN Res(st, NoneV, "IndexError")
  ELSE IF key \in DOMAIN st.h[c] THEN Res(st, st.h[c][key], "none")
  ELSE IF _is_section_key(key) THEN NewConfig(st)
  ELSE Res(st, NoneV, "KeyError")

\* Config.__getitem__
GetItem(st, c, key) ==
  IF IsBuiltin(key) THEN Res(st, BuiltinV(key), "none")
  ELSE IF key = <<>> THEN Res(st, NoneV, "IndexError")
  ELSE IF _is_section_key(key)
  THEN IF key \in DOMAIN st.h[c]
       THEN Res(st, st.h[c][key], "none")
       ELSE LET r == NewConfig(st) IN
            IF r.exc # "none" THEN r
            ELSE Res([r.st EXCEPT !.h[c] = DictUpdate(@, [k \in {key} |-> r.ret])],
                     r.ret, "none")
  ELSE IF key \in DOMAIN st.h[c]
       THEN Res(st, st.h[c][key], "none")
       ELSE Res(st, NoneV, "KeyError")

\* A __setitem__ that keeps the value a key already has.
SetItemKeep(st, c, key, value) ==
  IF IsBuiltin(key) THEN Res(st, NoneV, "ConfigError")
  ELSE IF key = <<>> THEN Res(st, NoneV, "IndexError")
  ELSE IF _is_section_key(key)
  THEN IF ~IsConfig(value)
       THEN Res(st, NoneV, "ValueError")
       ELSE Res(st, NoneV, "none")
  ELSE IF key \in DOMAIN st.h[c] THEN Res(st, NoneV, "none")
  ELSE Res([st EXCEPT !.h[c] = [k \in DOMAIN @ \cup {key} |->
                                  IF k = key THEN value ELSE @[k]]],
           NoneV, "none")

\* Config.__setitem__
SetItem(st, c, key, value) ==
  IF IsBuiltin(key) THEN Res(st, NoneV, "ConfigError")
  ELSE IF key = <<>> THEN Res(st, NoneV, "IndexError")
  ELSE IF _is_section_key(key)
  THEN IF ~IsConfig(value)
       THEN Res(st, NoneV, "ValueError")
       ELSE Res(st, NoneV, "none")
  ELSE Res([st EXCEPT !.h[c] = DictUpdate(@, [k \in {key} |-> value])],
           NoneV, "none")

\* A containment test that is true only of the keys stored.
ContainsStored(st, c, key) == key \in DOMAIN st.h[c]

\* Config.__contains__
Contains(st, c, key) ==
  IF _is_section_key(key) THEN TRUE ELSE key \in DOMAIN st.h[c]

\* Config.__delattr__
DelAttr(st, c, key) ==
  IF key \in DOMAIN st.h[c]
  THEN Res([st EXCEPT !.h[c] = DictDel(@, key)], NoneV, "none")
  ELSE Res(st, NoneV, "AttributeError")

\* Attributes of the Config class (methods inherited from dict) that occur in
\* the model's inputs: found by the normal attribute lookup unless the
\* instance dict, which is the mapping itself, holds the name.
ClassAttrNames == { <<"c","o","p","y">> }
MethodV(name) == [t |-> "method", n |-> 0, s |-> name]

\* getattr(c, key): the instance dict first (loader.py line 75 makes the mapping
\* its own __dict__), then the class, then Config.__getattr__, which turns the
\* KeyError of __getitem__ into AttributeError.
GetAttr(st, c, key) ==
  IF key \in DOMAIN st.h[c] THEN Res(st, st.h[c][key], "none")
  ELSE IF key \in ClassAttrNames THEN Res(st, MethodV(key), "none")
  ELSE LET r == GetItem(st, c, key) IN
       IF r.exc = "KeyError" THEN Res(r.st, NoneV, "AttributeError") ELSE r

\* Config.__setattr__
SetAttr(st, c, key, value) == SetItem(st, c, key, value)

\* The statement  c.p1.p2. ... .pn = value  (value already evaluated): getattr
\* along the path, setattr at its end. An object that is no Config has neither
\* the attribute nor a way to set it.
RECURSIVE ExecAssign(_, _, _, _)
ExecAssign(st, c, path, value) ==
  IF Len(path) = 1 THEN SetAttr(st, c, path[1], value)
  ELSE LET g == GetAttr(st, c, path[1]) IN
       IF g.exc # "none" THEN g
       ELSE IF ~IsConfig(g.ret) THEN Res(g.st, NoneV, "AttributeError")
       ELSE ExecAssign(g.st, g.ret.n, Tail(path), value)

\* The expression  c.p1.p2. ... .pn
RECURSIVE ExecLookup(_, _, _)
ExecLookup(st, c, path) ==
  LET g == GetAttr(st, c, path[1]) IN
  IF Len(path) = 1 \/ g.exc # "none" THEN g
  ELSE IF ~IsConfig(g.ret) THEN Res(g.st, NoneV, "AttributeError")
  ELSE ExecLookup(g.st, g.ret.n, Tail(path))

\* sys.getrecursionlimit(), scaled to the heap: deeper than any acyclic nesting.
RecursionLimit == MaxObj + 1

\* The orders in which a dict over the keys S can be iterated.
Orders(S) ==
  { sq \in [1..Cardinality(S) -> S] :
      \A i, j \in 1..Cardinality(S) : i # j => sq[i] # sq[j] }

\* The loop of Config._merge(self = a, other = b): ord is the iteration order of
\* dicts, i the position in it, upd the dict to_update, size0 the size of other
\* when the iteration started (a dict that changes size while it is iterated
\* raises RuntimeError at the next step), depth the recursion depth.
RECURSIVE MergeItems(_, _, _, _, _, _, _, _)
MergeItems(st, a, b, ord, i, upd, size0, depth) ==
  IF Cardinality(DOMAIN st.h[b]) # size0 THEN Res(st, NoneV, "RuntimeError")
  ELSE IF i > Len(ord)
  THEN Res([st EXCEPT !.h[a] = DictUpdate(@, upd)], NoneV, "none")
  ELSE LET k == ord[i] IN
    IF k \notin DOMAIN st.h[b]
    THEN MergeItems(st, a, b, ord, i + 1, upd, size0, depth)
    ELSE LET v == st.h[b][k]
             put == DictUpdate(upd, [x \in {k} |-> v])
         IN
      IF ~Contains(st, a, k)
      THEN MergeItems(st, a, b, ord, i + 1, put, size0, depth)
      ELSE IF IsConfig(v)
      THEN LET g == GetItem(st, a, k) IN
           IF g.exc # "none" THEN g
           ELSE IF ~IsConfig(g.ret) THEN Res(g.st, NoneV, "AttributeError")
           ELSE IF depth >= RecursionLimit THEN Res(g.st, NoneV, "RecursionError")
           ELSE LET m == MergeItems(g.st, g.ret.n, v.n, ord, 1, EmptyDict,
                                    Cardinality(DOMAIN g.st.h[v.n]), depth + 1)
                IN IF m.exc # "none" THEN m
                   ELSE MergeItems(m.st, a, b, ord, i + 1, upd, size0, depth)
      ELSE MergeItems(st, a, b, ord, i + 1, put, size0, depth)

\* A merge that also writes the merged leaves back into other.
MergeWriteBack(st, a, b, ord) ==
  LET m == MergeItems(st, a, b, ord, 1, EmptyDict, Cardinality(DOMAIN st.h[b]), 1)
  IN IF m.exc # "none" THEN m
     ELSE Res([m.st EXCEPT !.h[b] = DictUpdate(@, m.st.h[a])], NoneV, "none")

\* Config._merge(self = a, other = b)
_merge(st, a, b, ord) ==
  MergeItems(st, a, b, ord, 1, EmptyDict, Cardinality(DOMAIN st.h[b]), 1)

\* A copy that is a new Config with the items of a: a Config stored in a is
\* stored in the copy as the same object.
ShallowCopy(st, a) ==
  IF NewConfig(st).exc # "none" THEN NewConfig(st)
  ELSE Res([NewConfig(st).st EXCEPT !.h[NewConfig(st).ret.n] = st.h[a]],
           NewConfig(st).ret, "none")

\* copy.deepcopy(list(self.items())) for the items src of a Config: todo the
\* keys still to copy, acc the copied items, memo the Configs this call has
\* copied already (one memo per call: __deepcopy__ does not pass its memo on).
\* A leaf is immutable and is its own copy.
RECURSIVE CopyItems(_, _, _, _, _, _)
RECURSIVE DeepCopyAt(_, _, _)
CopyItems(st, src, todo, acc, memo, depth) ==
  IF todo = {} THEN [st |-> st, d |-> acc, exc |-> "none"]
  ELSE LET k == CHOOSE x \in todo : TRUE
           v == src[k]
       IN
    IF ~IsConfig(v)
    THEN CopyItems(st, src, todo \ {k}, DictUpdate(acc, [x \in {k} |-> v]), memo, depth)
    ELSE IF v.n \in DOMAIN memo
    THEN CopyItems(st, src, todo \ {k},
                   DictUpdate(acc, [x \in {k} |-> CfgV(memo[v.n])]), memo, depth)
    ELSE LET r == DeepCopyAt(st, v.n, depth + 1) IN
         IF r.exc # "none" THEN [st |-> st, d |-> acc, exc |-> r.exc]
         ELSE CopyItems(r.st, src, todo \ {k},
                        DictUpdate(acc, [x \in {k} |-> r.ret]),
                        [x \in DOMAIN memo \cup {v.n} |->
                           IF x = v.n THEN r.ret.n ELSE memo[x]],
                        depth)

\* Config.__deepcopy__(self = a) at recursion depth depth: the items are
\* copied first, then the new Config is made of them. A Config nested in
\* itself is copied without end, until the recursion limit.
DeepCopyAt(st, a, depth) ==
  IF depth > RecursionLimit THEN Res(st, NoneV, "RecursionError")
  ELSE LET r == CopyItems(st, st.h[a], DOMAIN st.h[a], EmptyDict, EmptyDict, depth) IN
       IF r.exc # "none" THEN Res(st, NoneV, r.exc)
       ELSE IF NewConfig(r.st).exc # "none" THEN Res(st, NoneV, NewConfig(r.st).exc)
       ELSE Res([NewConfig(r.st).st EXCEPT !.h[NewConfig(r.st).ret.n] = r.d],
                NewConfig(r.st).ret, "none")

\* copy.deepcopy(a)
DeepCopy(st, a) == DeepCopyAt(st, a, 1)

\* ------------------------------------------------------------------ state
VARIABLES
  heap,    \* address -> dict of the Config object at that address
  nalloc,  \* number of Config objects created so far
  op,      \* the last call: its name, arguments, result and exception
  pre,     \* the heap as it was when the last call started
  nops,    \* number of calls made so far
  files,   \* file loader: script id -> the statements of that config file
  stack,   \* file loader: the load_config calls in progress, innermost last
  fstate,  \* file loader: "idle", "running", "returned" or "raised"
  fres,    \* file loader: what the top-level load_config delivered
  kvargv,  \* key=value loader: self.argv, the tokens given to the constructor
  kvcfg,   \* key=value loader: self.config, the address of a Config
  extra_args, \* key=value loader: self.extra_args
  kvres,   \* key=value loader: what the last load_config delivered
  copied,  \* the last deepcopy that returned: the original and its copy
  parsed   \* argparse loader: self.parsed_data and self.extra_args, once set

cfgvars == << heap, nalloc, op, pre, nops >>
filevars == << files, stack, fstate, fres >>
kvvars == << kvargv, kvcfg, extra_args, kvres >>
vars == << heap, nalloc, op, pre, nops, files, stack, fstate, fres,
           kvargv, kvcfg, extra_args, kvres, copied, parsed >>

\* The argparse loader has parsed nothing: it has neither attribute.
NotParsed == [has |-> FALSE, data |-> <<>>, extra |-> <<>>]

\* No Config has been deep-copied.
NoCopy == [src |-> 0, dst |-> 0]

\* No key=value loader has been made / no file loader is in use.
KVNoResult == [state |-> "idle", exc |-> "none", msg |-> "", cfg |-> 0, argv |-> <<>>]
KVUnused ==
  /\ kvargv = <<>>
  /\ kvcfg = 0
  /\ extra_args = <<>>
  /\ kvres = KVNoResult

St == [h |-> heap, n |-> nalloc]

Addrs == 1..MaxObj
Live == 1..nalloc

\* The keys some live dict holds.
StoredKeys == UNION { DOMAIN heap[a] : a \in 1..nalloc }

\* ------------------------------------------------------------------ Config calls
\* Keys, dotted paths and values the calls on Config objects are made with.
Keys == { <<"A">>, <<"x">>, <<"l","e","n">> }
Paths == { << <<"A">>, <<"x">> >>, << <<"A">>, <<"y">> >> }
SetValues == { IntV(1), IntV(2) }

Call(name, c, key, path, value, other, r) ==
  /\ nops < MaxOps
  /\ r.exc # "bound"
  /\ nops' = nops + 1
  /\ heap' = r.st.h
  /\ nalloc' = r.st.n
  /\ pre' = heap
  /\ op' = [name |-> name, c |-> c, k |-> key, p |-> path, v |-> value,
            b |-> other, ret |-> r.ret, exc |-> r.exc]
  /\ UNCHANGED << filevars, kvvars, copied, parsed >>

NoOp == [name |-> "init", c |-> 0, k |-> <<>>, p |-> <<>>, v |-> NoneV, b |-> 0,
         ret |-> NoneV, exc |-> "none"]

\* c[key] = Config()
DoSetNew(c, key) ==
  LET n == NewConfig(St) IN
  Call("set", c, key, <<>>, n.ret, 0,
       IF n.exc # "none" THEN n ELSE SetItem(n.st, c, key, n.ret))

\* c[key]
DoGet(c, key) == Call("get", c, key, <<>>, NoneV, 0, GetItem(St, c, key))

\* c[key] = value
DoSet(c, key, value) ==
  Call("set", c, key, <<>>, value, 0, SetItem(St, c, key, value))

\* c.p1.p2 = value
DoAssign(c, path, value) ==
  Call("assign", c, <<>>, path, value, 0, ExecAssign(St, c, path, value))

\* del c.key
DoDel(c, key) == Call("del", c, key, <<>>, NoneV, 0, DelAttr(St, c, key))

\* a._merge(b)
DoMerge(a, b, ord) ==
  Call("merge", a, <<>>, <<>>, NoneV, b, _merge(St, a, b, ord))

Init ==
  /\ heap = [a \in Addrs |-> EmptyDict]
  /\ nalloc = 2
  /\ op = NoOp
  /\ pre = [a \in Addrs |-> EmptyDict]
  /\ nops = 0
  /\ files = <<>>
  /\ stack = <<>>
  /\ fstate = "idle"
  /\ fres = [file |-> "", exc |-> "none", cfg |-> 0]
  /\ KVUnused
  /\ copied = NoCopy
  /\ parsed = NotParsed

Next ==
  \/ \E c \in Live, key \in Keys : DoSetNew(c, key)
  \/ \E c \in Live, key \in Keys : DoGet(c, key)
  \/ \E c \in Live, key \in Keys, value \in SetValues : DoSet(c, key, value)
  \/ \E c \in Live, path \in Paths, value \in SetValues : DoAssign(c, path, value)
  \/ \E c \in Live, key \in Keys : DoDel(c, key)
  \/ \E a \in Live, b \in Live, ord \in Orders(StoredKeys) : DoMerge(a, b, ord)

Spec == Init /\ [][Next]_vars

\* ------------------------------------------------------------------ deep copies
\* d = copy.deepcopy(c). The history variable follows one copy, the first
\* that returns.
DoDeepCopy(c) ==
  /\ copied = NoCopy
  /\ DeepCopy(St, c).exc # "bound"
  /\ heap' = DeepCopy(St, c).st.h
  /\ nalloc' = DeepCopy(St, c).st.n
  /\ pre' = heap
  /\ op' = [NoOp EXCEPT !.name = "deepcopy", !.c = c,
                        !.ret = DeepCopy(St, c).ret, !.exc = DeepCopy(St, c).exc]
  /\ copied' = IF DeepCopy(St, c).exc = "none"
               THEN [src |-> c, dst |-> DeepCopy(St, c).ret.n] ELSE copied
  /\ UNCHANGED << nops, filevars, kvvars, parsed >>

\* One Config exists; it is written, read, merged and deep-copied.
InitCopy ==
  /\ heap = [a \in Addrs |-> EmptyDict]
  /\ nalloc = 1
  /\ op = NoOp
  /\ pre = [a \in Addrs |-> EmptyDict]
  /\ nops = 0
  /\ files = <<>>
  /\ stack = <<>>
  /\ fstate = "idle"
  /\ fres = [file |-> "", exc |-> "none", cfg |-> 0]
  /\ KVUnused
  /\ copied = NoCopy
  /\ parsed = NotParsed

\* The keys and the path the calls on the copied Configs are made with.
CopyKeys == { <<"A">>, <<"x">> }
CopyPath == << <<"A">>, <<"x">> >>

NextCopy ==
  \/ \E c \in Live, key \in CopyKeys : DoSetNew(c, key)
  \/ \E c \in Live, key \in CopyKeys : DoGet(c, key)
  \/ \E c \in Live, key \in CopyKeys, value \in SetValues : DoSet(c, key, value)
  \/ \E c \in Live, value \in SetValues : DoAssign(c, CopyPath, value)
  \/ \E a \in Live, b \in Live, ord \in Orders(StoredKeys) : DoMerge(a, b, ord)
  \/ \E c \in Live : DoDeepCopy(c)

SpecCopy == InitCopy /\ [][NextCopy]_vars

\* ------------------------------------------------------------------ item access
\* One Config exists; items are set and read with keys of every kind: the
\* empty key, keys that begin with a digit, an underscore, a lower-case and
\* an upper-case letter, and names of builtins.
ItemKeys ==
  { <<>>, <<"1","a">>, <<"_","A">>, <<"x">>, <<"A">>, <<"l","e","n">>,
    <<"N","o","n","e">> }

\* A Python bool.
BoolV(b) == [t |-> "bool", n |-> IF b THEN 1 ELSE 0, s |-> <<>>]

\* c._is_section_key(key), called: key[0] of the empty key raises IndexError.
IsSectionKeyCall(st, c, key) ==
  IF key = <<>> THEN Res(st, NoneV, "IndexError")
  ELSE Res(st, BoolV(_is_section_key(key)), "none")

\* key in c, called (Config.__contains__)
ContainsCall(st, c, key) ==
  IF key = <<>> THEN Res(st, NoneV, "IndexError")
  ELSE Res(st, BoolV(Contains(st, c, key)), "none")

DoIsSectionKey(c, key) ==
  Call("is_section_key", c, key, <<>>, NoneV, 0, IsSectionKeyCall(St, c, key))

DoContains(c, key) ==
  Call("contains", c, key, <<>>, NoneV, 0, ContainsCall(St, c, key))

NextItem ==
  \/ \E c \in Live, key \in ItemKeys : DoSetNew(c, key)
  \/ \E c \in Live, key \in ItemKeys : DoGet(c, key)
  \/ \E c \in Live, key \in ItemKeys, value \in SetValues : DoSet(c, key, value)
  \/ \E c \in Live, key \in ItemKeys : DoContains(c, key)
  \/ \E c \in Live, key \in ItemKeys : DoIsSectionKey(c, key)

SpecItem == InitCopy /\ [][NextItem]_vars

\* ------------------------------------------------------------------ claims
\* C1: after a successful set(k, v), for every non-reserved key k and every
\* value v that set accepts, and after a successful assignment along a dotted
\* path, reading the same key or path returns v.
C1_SetThenGet ==
  /\ (op.name = "set" /\ op.exc = "none")
       => LET g == GetItem(St, op.c, op.k) IN
          g.exc = "bound" \/ (g.exc = "none" /\ g.ret = op.v)
  /\ (op.name = "assign" /\ op.exc = "none")
       => LET g == ExecLookup(St, op.c, op.p) IN
          g.exc = "bound" \/ (g.exc = "none" /\ g.ret = op.v)

TreeV(d) == [t |-> "tree", n |-> 0, s |-> <<>>, d |-> d]
LeafT(v) == [t |-> v.t, n |-> v.n, s |-> v.s, d |-> EmptyDict]
DeepT == [t |-> "deep", n |-> 0, s |-> <<>>, d |-> EmptyDict]

RECURSIVE Tree(_, _, _)
Tree(h, v, fuel) ==
  IF ~IsConfig(v) THEN LeafT(v)
  ELSE IF fuel = 0 THEN DeepT
  ELSE TreeV([k \in DOMAIN h[v.n] |-> Tree(h, h[v.n][k], fuel - 1)])

TreeOf(h, a) == Tree(h, CfgV(a), MaxObj + 1)

\* The addresses of the Configs nested in Config a, a included.
RECURSIVE ReachFrom(_, _, _)
ReachFrom(h, todo, seen) ==
  IF todo = {} THEN seen
  ELSE LET a == CHOOSE x \in todo : TRUE
           nxt == { h[a][k].n : k \in { x \in DOMAIN h[a] : IsConfig(h[a][x]) } }
       IN ReachFrom(h, (todo \cup nxt) \ (seen \cup {a}), seen \cup {a})

Reach(h, a) == ReachFrom(h, {a}, {})

\* The Configs stored in Config a itself.
Children(h, a) == { h[a][k].n : k \in { x \in DOMAIN h[a] : IsConfig(h[a][x]) } }

\* No Config nested in a contains itself.
Acyclic(h, a) ==
  \A o \in Reach(h, a) : o \notin ReachFrom(h, Children(h, o), {})

\* Configs a and b are distinct, finite structures with no object in common.
Separate(h, a, b) ==
  /\ Acyclic(h, a)
  /\ Acyclic(h, b)
  /\ Reach(h, a) \cap Reach(h, b) = {}

\* The deep union with leaf overwrite of two config values, as the claim
\* states it.
RECURSIVE MergeTree(_, _)
MergeTree(ta, tb) ==
  TreeV([k \in DOMAIN ta.d \cup DOMAIN tb.d |->
           IF k \notin DOMAIN tb.d THEN ta.d[k]
           ELSE IF k \notin DOMAIN ta.d THEN tb.d[k]
           ELSE IF ta.d[k].t = "tree" /\ tb.d[k].t = "tree"
                THEN MergeTree(ta.d[k], tb.d[k])
                ELSE tb.d[k]])

\* C3: after A.merge(B) the value of A is the deep union of the old A and B
\* with B's leaves overwriting A's: keys only A holds keep their values, keys
\* only B holds are copied, sections on both sides are merged recursively and
\* in every other case B's value replaces A's.
C3_MergeDeepUnion ==
  (op.name = "merge" /\ Separate(pre, op.c, op.b))
    => /\ op.exc = "none"
       /\ TreeOf(heap, op.c) = MergeTree(TreeOf(pre, op.c), TreeOf(pre, op.b))

\* Somewhere in the two values a leaf of A meets a Config of B under one key.
RECURSIVE LeafMeetsSection(_, _)
LeafMeetsSection(ta, tb) ==
  \E k \in DOMAIN ta.d \cap DOMAIN tb.d :
     /\ tb.d[k].t = "tree"
     /\ \/ ta.d[k].t # "tree"
        \/ LeafMeetsSection(ta.d[k], tb.d[k])

\* C3 (support): on separate configs in which no leaf of A meets a Config of B
\* the merge returns and yields the deep union.
C3_HoldsWithoutLeafMeetsSection ==
  (/\ op.name = "merge"
   /\ ~LeafMeetsSection(TreeOf(pre, op.c), TreeOf(pre, op.b))
   /\ Separate(pre, op.c, op.b))
    => /\ op.exc = "none"
       /\ TreeOf(heap, op.c) = MergeTree(TreeOf(pre, op.c), TreeOf(pre, op.b))

\* The places (holder, key) inside Config a where Config o is stored.
RefsTo(h, a, o) ==
  { pk \in Reach(h, a) \X StoredKeys : pk[2] \in DOMAIN h[pk[1]] /\ h[pk[1]][pk[2]] = CfgV(o) }

\* Config a is a tree: nothing stores a itself and every Config nested in it is
\* stored at exactly one place.
TreeShaped(h, a) ==
  \A o \in Reach(h, a) :
    Cardinality(RefsTo(h, a, o)) = IF o = a THEN 0 ELSE 1

\* Config b and everything nested in it is as it was before the last call.
Unchanged(b) == \A o \in Reach(pre, b) : heap[o] = pre[o]

\* C4 (as stated): for distinct objects A and B, A.merge(B) leaves B and every
\* Config nested in B as they were.
C4_MergeLeavesOtherAsStated ==
  (op.name = "merge" /\ op.c # op.b) => Unchanged(op.b)

\* C4 (amended): when A is a tree and shares no object with B, A.merge(B)
\* leaves B and every Config nested in B as they were.
C4_MergeLeavesOther ==
  (/\ op.name = "merge"
   /\ TreeShaped(pre, op.c)
   /\ Reach(pre, op.c) \cap Reach(pre, op.b) = {})
    => Unchanged(op.b)

\* C4 witness: a merge into a tree-shaped A from a separate B with a nested
\* section changed A.
C4_Witness ==
  /\ op.name = "merge" /\ op.exc = "none"
  /\ TreeShaped(pre, op.c)
  /\ Reach(pre, op.c) \cap Reach(pre, op.b) = {}
  /\ Cardinality(Reach(pre, op.b)) > 1
  /\ heap[op.c] # pre[op.c]

\* ------------------------------------------------------------------ the python-file loader
\* Statements of a configuration script. A script starts with c = get_config()
\* and goes on with statements of four kinds:
\*   c.A.x = v                          (assign)
\*   load_subconfig(fname)              (load, prof = "")
\*   load_subconfig(fname, profile=p)   (load)
\*   a statement that raises e          (raise)
Assign(path, value) ==
  [k |-> "assign", path |-> path, v |-> value, f |-> "", prof |-> "", e |-> ""]
Load(fname, profile) ==
  [k |-> "load", path |-> <<>>, v |-> NoneV, f |-> fname, prof |-> profile, e |-> ""]
Raise(exc) ==
  [k |-> "raise", path |-> <<>>, v |-> NoneV, f |-> "", prof |-> "", e |-> exc]

PathAx == << <<"A">>, <<"x">> >>
PathAy == << <<"A">>, <<"y">> >>

\* The statements the script of the base file and of the child file are made of.
BaseStmts ==
  { Assign(PathAx, IntV(1)), Assign(PathAy, IntV(1)),
    Load("child.py", ""), Load("absent.py", ""), Load("child.py", "nosuch"),
    Raise("IOError"), Raise("ValueError") }
ChildStmts ==
  { Assign(PathAx, IntV(2)), Assign(PathAy, IntV(2)),
    Raise("IOError"), Raise("ValueError") }

SeqsUpTo(S, n) == UNION { [1..m -> S] : m \in 0..n }

FileNames == { "base.py", "child.py", "absent.py" }

\* filefind(filename, path): the files the search path holds; any other name
\* raises IOError.
OnPath == { "base.py", "child.py", "other.py" }
FileFind(fname) ==
  IF fname \in OnPath THEN [exc |-> "none", full |-> fname]
  ELSE [exc |-> "IOError", full |-> ""]

\* ProfileDir.find_profile_dir_by_name: the profiles that resolve to a directory
\* (here the one of the search path); any other name raises ProfileDirError.
KnownProfiles == { "default" }
FindProfileDir(profile) ==
  IF profile \in KnownProfiles THEN "none" ELSE "ProfileDirError"

\* PyFileConfigLoader(fname, path) followed by the first two steps of its
\* load_config: the constructor's clear(), the clear() of load_config and
\* _find_file. cfg is the address of the loader's config.
StartLoader(st, fname) ==
  LET c0 == NewConfig(st)
      c1 == NewConfig(c0.st)
      ff == FileFind(fname)
  IN IF c0.exc # "none" THEN [st |-> st, cfg |-> 0, exc |-> "bound"]
     ELSE IF c1.exc # "none" THEN [st |-> st, cfg |-> 0, exc |-> "bound"]
     ELSE [st |-> c1.st, cfg |-> c1.ret.n, exc |-> ff.exc]

Frame(fname, cfg) == [file |-> fname, pc |-> 1, cfg |-> cfg]

Top == stack[Len(stack)]
Parent == stack[Len(stack) - 1]
AtStmt == Top.pc <= Len(files[Top.file])
Stmt == files[Top.file][Top.pc]

\* The stack with its innermost call advanced to its next statement.
Advance(stk) == [stk EXCEPT ![Len(stk)].pc = @ + 1]
Pop(stk) == SubSeq(stk, 1, Len(stk) - 1)

\* An except clause that lets IOError through as well.
CatchesNothing(exc) == FALSE

\* An except clause that catches every error.
CatchesAnything(exc) == TRUE

\* load_subconfig's  except IOError: pass  around loader.load_config()
CatchesIOError(exc) == exc = "IOError"

\* Exception exc leaves the script of the innermost call of stk. A top-level
\* call delivers it to its caller. In a nested call it leaves load_config inside
\* the parent's load_subconfig, where the except clause may catch it and the
\* parent's script goes on; otherwise it leaves the parent's script too.
RECURSIVE Unwind(_, _)
Unwind(stk, exc) ==
  IF Len(stk) = 1 THEN [stack |-> <<>>, fstate |-> "raised", exc |-> exc]
  ELSE IF CatchesIOError(exc)
       THEN [stack |-> Advance(Pop(stk)), fstate |-> "running", exc |-> "none"]
       ELSE Unwind(Pop(stk), exc)

FileStep(name, st, stk, state, res, acting, other, exc) ==
  /\ heap' = st.h
  /\ nalloc' = st.n
  /\ stack' = stk
  /\ fstate' = state
  /\ fres' = res
  /\ pre' = heap
  /\ op' = [name |-> name, c |-> acting, k |-> <<>>, p |-> <<>>, v |-> NoneV,
            b |-> other, ret |-> NoneV, exc |-> exc]
  /\ UNCHANGED << nops, files, kvvars, copied, parsed >>

Raised(name, st, stk, acting, other, exc) ==
  LET u == Unwind(stk, exc) IN
  FileStep(name, st, u.stack, u.fstate,
           IF u.fstate = "raised" THEN [fres EXCEPT !.exc = exc] ELSE fres,
           acting, other, exc)

\* A load_config that returns the empty config when the file is not found.
FLoadConfigSwallow(fname) ==
  /\ fstate = "idle"
  /\ LET l == StartLoader(St, fname) IN
     /\ l.exc # "bound"
     /\ IF l.exc # "none"
        THEN FileStep("fload", l.st, <<>>, "returned",
                      [file |-> fname, exc |-> "none", cfg |-> l.cfg], l.cfg, 0, "none")
        ELSE FileStep("fload", l.st, << Frame(fname, l.cfg) >>, "running",
                      [file |-> fname, exc |-> "none", cfg |-> 0], l.cfg, 0, "none")

\* The caller's  PyFileConfigLoader(fname, path).load_config()  up to the start
\* of the script.
FLoadConfig(fname) ==
  /\ fstate = "idle"
  /\ LET l == StartLoader(St, fname) IN
     /\ l.exc # "bound"
     /\ IF l.exc # "none"
        THEN FileStep("fload_raise", l.st, <<>>, "raised",
                      [file |-> fname, exc |-> l.exc, cfg |-> 0], l.cfg, 0, l.exc)
        ELSE FileStep("fload", l.st, << Frame(fname, l.cfg) >>, "running",
                      [file |-> fname, exc |-> "none", cfg |-> 0], l.cfg, 0, "none")

\* A statement  c.A.x = v  of the running script, c being get_config().
FAssign ==
  /\ fstate = "running" /\ AtStmt /\ Stmt.k = "assign"
  /\ LET r == ExecAssign(St, Top.cfg, Stmt.path, Stmt.v) IN
     /\ r.exc # "bound"
     /\ IF r.exc = "none"
        THEN FileStep("fassign", r.st, Advance(stack), "running", fres,
                      Top.cfg, 0, "none")
        ELSE Raised("fassign_raise", r.st, stack, Top.cfg, 0, r.exc)

\* A statement of the running script that raises.
FRaise ==
  /\ fstate = "running" /\ AtStmt /\ Stmt.k = "raise"
  /\ Raised("fraise", St, stack, Top.cfg, 0, Stmt.e)

\* A load_subconfig whose sub-config script is given the parent's config.
FLoadSubShared ==
  /\ fstate = "running" /\ AtStmt /\ Stmt.k = "load"
  /\ IF Stmt.prof # "" /\ FindProfileDir(Stmt.prof) # "none"
     THEN FileStep("fsub_noprofile", St, Advance(stack), "running", fres,
                   Top.cfg, 0, "none")
     ELSE IF Len(stack) >= MaxDepth
     THEN Raised("fsub_depth", St, stack, Top.cfg, 0, "RuntimeError")
     ELSE LET l == StartLoader(St, Stmt.f) IN
          /\ l.exc # "bound"
          /\ IF l.exc = "none"
             THEN FileStep("fsub_push", l.st, Append(stack, Frame(Stmt.f, Top.cfg)),
                           "running", fres, Top.cfg, l.cfg, "none")
             ELSE IF CatchesIOError(l.exc)
             THEN FileStep("fsub_skip", l.st, Advance(stack), "running", fres,
                           Top.cfg, l.cfg, "none")
             ELSE Raised("fsub_raise", l.st, stack, Top.cfg, l.cfg, l.exc)

\* A statement  load_subconfig(fname, profile)  up to the start of the child's
\* script, or up to the next statement when the child is not loaded. Each
\* nested load is a chain of Python calls on the interpreter's stack: at
\* MaxDepth nested loads the interpreter raises RuntimeError (maximum recursion
\* depth exceeded) in place of the next call.
FLoadSub ==
  /\ fstate = "running" /\ AtStmt /\ Stmt.k = "load"
  /\ IF Stmt.prof # "" /\ FindProfileDir(Stmt.prof) # "none"
     THEN FileStep("fsub_noprofile", St, Advance(stack), "running", fres,
                   Top.cfg, 0, "none")
     ELSE IF Len(stack) >= MaxDepth
     THEN Raised("fsub_depth", St, stack, Top.cfg, 0, "RuntimeError")
     ELSE LET l == StartLoader(St, Stmt.f) IN
          /\ l.exc # "bound"
          /\ IF l.exc = "none"
             THEN FileStep("fsub_push", l.st, Append(stack, Frame(Stmt.f, l.cfg)),
                           "running", fres, Top.cfg, l.cfg, "none")
             ELSE IF CatchesIOError(l.exc)
             THEN FileStep("fsub_skip", l.st, Advance(stack), "running", fres,
                           Top.cfg, l.cfg, "none")
             ELSE Raised("fsub_raise", l.st, stack, Top.cfg, l.cfg, l.exc)

\* An end of script after which load_subconfig merges the sub-config only
\* into a parent config that is still empty.
FReturnOnce(ord) ==
  /\ fstate = "running" /\ ~AtStmt
  /\ IF Len(stack) = 1
     THEN FileStep("freturn", St, <<>>, "returned",
                   [fres EXCEPT !.cfg = Top.cfg], Top.cfg, 0, "none")
     ELSE IF heap[Parent.cfg] # EmptyDict
     THEN FileStep("fmerge", St, Advance(Pop(stack)), "running", fres,
                   Parent.cfg, Top.cfg, "none")
     ELSE LET m == _merge(St, Parent.cfg, Top.cfg, ord) IN
          /\ m.exc # "bound"
          /\ IF m.exc = "none"
             THEN FileStep("fmerge", m.st, Advance(Pop(stack)), "running", fres,
                           Parent.cfg, Top.cfg, "none")
             ELSE Raised("fmerge_raise", m.st, Pop(stack), Parent.cfg, Top.cfg, m.exc)

\* The end of the running script: _convert_to_config() does nothing and
\* load_config returns self.config, to the caller or to the parent's
\* load_subconfig, which merges it into the parent's config.
FReturn(ord) ==
  /\ fstate = "running" /\ ~AtStmt
  /\ IF Len(stack) = 1
     THEN FileStep("freturn", St, <<>>, "returned",
                   [fres EXCEPT !.cfg = Top.cfg], Top.cfg, 0, "none")
     ELSE LET m == _merge(St, Parent.cfg, Top.cfg, ord) IN
          /\ m.exc # "bound"
          /\ IF m.exc = "none"
             THEN FileStep("fmerge", m.st, Advance(Pop(stack)), "running", fres,
                           Parent.cfg, Top.cfg, "none")
             ELSE Raised("fmerge_raise", m.st, Pop(stack), Parent.cfg, Top.cfg, m.exc)

FileAddrs == 1..(3 * (MaxScript + 1))

InitFile ==
  /\ heap = [a \in FileAddrs |-> EmptyDict]
  /\ nalloc = 0
  /\ op = NoOp
  /\ pre = [a \in FileAddrs |-> EmptyDict]
  /\ nops = 0
  /\ \E b \in SeqsUpTo(BaseStmts, MaxScript), c \in SeqsUpTo(ChildStmts, MaxScript) :
       files = [f \in OnPath |->
                  IF f = "base.py" THEN b ELSE IF f = "child.py" THEN c ELSE <<>>]
  /\ stack = <<>>
  /\ fstate = "idle"
  /\ fres = [file |-> "", exc |-> "none", cfg |-> 0]
  /\ KVUnused
  /\ copied = NoCopy
  /\ parsed = NotParsed

NextFile ==
  \/ \E fname \in FileNames : FLoadConfig(fname)
  \/ FAssign
  \/ FRaise
  \/ FLoadSub
  \/ \E ord \in Orders(StoredKeys) : FReturn(ord)

SpecFile == InitFile /\ [][NextFile]_vars

\* A script that loads two sub-configs, each of which assigns leaves of the
\* section A.
TwoBaseStmts == { Load("child.py", ""), Load("other.py", ""), Raise("ValueError") }
TwoChildStmts == { Assign(PathAx, IntV(2)), Assign(PathAy, IntV(2)) }
TwoOtherStmts == { Assign(PathAx, IntV(3)), Assign(PathAy, IntV(3)) }

InitTwo ==
  /\ heap = [a \in FileAddrs |-> EmptyDict]
  /\ nalloc = 0
  /\ op = NoOp
  /\ pre = [a \in FileAddrs |-> EmptyDict]
  /\ nops = 0
  /\ \E b \in SeqsUpTo(TwoBaseStmts, MaxScript), c \in SeqsUpTo(TwoChildStmts, MaxScript),
        o \in SeqsUpTo(TwoOtherStmts, MaxScript) :
       files = [f \in OnPath |->
                  IF f = "base.py" THEN b ELSE IF f = "child.py" THEN c ELSE o]
  /\ stack = <<>>
  /\ fstate = "idle"
  /\ fres = [file |-> "", exc |-> "none", cfg |-> 0]
  /\ KVUnused
  /\ copied = NoCopy
  /\ parsed = NotParsed

SpecTwo == InitTwo /\ [][NextFile]_vars

\* Scripts that may include themselves, directly or through the other file.
IncBaseStmts ==
  { Assign(PathAx, IntV(1)), Load("child.py", ""), Load("base.py", ""),
    Raise("ValueError") }
IncChildStmts ==
  { Assign(PathAx, IntV(2)), Load("base.py", ""), Load("child.py", "") }

IncludeAddrs == 1..(3 * (MaxScript + 1) * MaxDepth)

InitInclude ==
  /\ heap = [a \in IncludeAddrs |-> EmptyDict]
  /\ nalloc = 0
  /\ op = NoOp
  /\ pre = [a \in IncludeAddrs |-> EmptyDict]
  /\ nops = 0
  /\ \E b \in SeqsUpTo(IncBaseStmts, MaxScript), c \in SeqsUpTo(IncChildStmts, MaxScript) :
       files = [f \in OnPath |->
                  IF f = "base.py" THEN b ELSE IF f = "child.py" THEN c ELSE <<>>]
  /\ stack = <<>>
  /\ fstate = "idle"
  /\ fres = [file |-> "", exc |-> "none", cfg |-> 0]
  /\ KVUnused
  /\ copied = NoCopy
  /\ parsed = NotParsed

\* The interpreter runs a script and the loads nested in it in one thread,
\* statement after statement: a step that can be taken is taken.
SpecInclude == InitInclude /\ [][NextFile]_vars /\ WF_vars(NextFile)

\* ------------------------------------------------------------------ claims on the file loader
\* The value stored at a dotted path of Config c, NoneV when nothing is.
RECURSIVE ReadPath(_, _, _)
ReadPath(h, c, path) ==
  IF path[1] \notin DOMAIN h[c] THEN NoneV
  ELSE LET v == h[c][path[1]] IN
       IF Len(path) = 1 THEN v
       ELSE IF IsConfig(v) THEN ReadPath(h, v.n, Tail(path))
       ELSE NoneV

BaseScript == files["base.py"]
ChildScript == files["child.py"]
LeafPaths == { PathAx, PathAy }

\* load_config of base.py has returned its config.
BaseReturned == fstate = "returned" /\ fres.file = "base.py"

\* The parent assigns leaf p and then loads the child, which assigns p and a
\* new leaf q.
C5_Case(p, q) ==
  /\ BaseReturned
  /\ p # q
  /\ BaseScript = << Assign(p, IntV(1)), Load("child.py", "") >>
  /\ ChildScript \in { << Assign(p, IntV(2)), Assign(q, IntV(2)) >>,
                       << Assign(q, IntV(2)), Assign(p, IntV(2)) >> }

\* C5 (as stated): when the parent assigns a leaf and then calls load_subconfig
\* on a child that assigns the same leaf and a new one, the result holds the
\* parent's value for the first and the child's value for the new leaf.
C5_ParentValueKeptAsStated ==
  \A p, q \in LeafPaths :
    C5_Case(p, q) => /\ ReadPath(heap, fres.cfg, p) = IntV(1)
                     /\ ReadPath(heap, fres.cfg, q) = IntV(2)

\* C5 (amended): in that case the result holds the child's value for both
\* leaves: the merge of the sub-config overwrites the leaf the parent set
\* before the call.
C5_ChildValueOverwrites ==
  \A p, q \in LeafPaths :
    C5_Case(p, q) => /\ ReadPath(heap, fres.cfg, p) = IntV(2)
                     /\ ReadPath(heap, fres.cfg, q) = IntV(2)

\* C5 witness: the load of such a parent and child has returned.
C5_Witness == C5_Case(PathAx, PathAy)

\* The child's script runs to its end.
ChildCompletes == \A i \in DOMAIN ChildScript : ChildScript[i].k # "raise"

\* Statement j of the parent script is its last write: no load_subconfig call
\* and no assignment to the same path follows it.
LastWrite(j) ==
  \A n \in DOMAIN BaseScript :
    n > j => /\ BaseScript[n].k # "load"
             /\ BaseScript[n].path # BaseScript[j].path

\* C6: in the result of a script, a leaf the parent assigned after a
\* load_subconfig call (and did not write again) has the parent's value
\* whatever the sub-config set for it, and every leaf the sub-config set that
\* the parent does not assign after the call has the sub-config's value.
C6_LaterAssignmentWins ==
  BaseReturned =>
    \A i \in DOMAIN BaseScript :
      BaseScript[i] = Load("child.py", "") =>
        /\ \A j \in DOMAIN BaseScript :
             (j > i /\ BaseScript[j].k = "assign" /\ LastWrite(j))
               => ReadPath(heap, fres.cfg, BaseScript[j].path) = BaseScript[j].v
        /\ ChildCompletes =>
             \A n \in DOMAIN ChildScript :
               (/\ ChildScript[n].k = "assign"
                /\ \A j \in DOMAIN BaseScript :
                     ~(j > i /\ BaseScript[j].k = "assign"
                         /\ BaseScript[j].path = ChildScript[n].path))
                 => ReadPath(heap, fres.cfg, ChildScript[n].path) = ChildScript[n].v

\* C6 witness: the parent loaded a child that set two leaves and then assigned
\* one of them itself.
C6_Witness ==
  /\ BaseReturned
  /\ BaseScript = << Load("child.py", ""), Assign(PathAx, IntV(1)) >>
  /\ ChildScript = << Assign(PathAx, IntV(2)), Assign(PathAy, IntV(2)) >>

\* The running script is at a load_subconfig whose target cannot be located.
AtUnlocatableLoad ==
  /\ fstate = "running" /\ AtStmt /\ Stmt.k = "load"
  /\ \/ Stmt.prof # "" /\ FindProfileDir(Stmt.prof) # "none"
     \/ Stmt.prof = "" /\ FileFind(Stmt.f).exc # "none"

\* C7: a load_subconfig call whose file is not on the search path or whose
\* profile does not resolve raises nothing, leaves every existing config as it
\* was and the script goes on with its next statement.
C7_MissingSubconfigSkipped ==
  [][AtUnlocatableLoad =>
       /\ fstate' = "running"
       /\ stack' = Advance(stack)
       /\ op'.exc = "none"
       /\ \A a \in 1..nalloc : heap'[a] = heap[a]]_vars

\* C7 witness: a script that had assigned something went past a load_subconfig
\* of a file that is not there.
C7_Witness ==
  /\ op.name = "fsub_skip"
  /\ fstate = "running"
  /\ heap[op.c] # EmptyDict

\* C8: load_config on a file that is not on the search path ends with IOError
\* at the caller, with no script run: no call in progress and nothing assigned.
C8_TopLevelNotFoundRaises ==
  (fstate # "idle" /\ FileFind(fres.file).exc # "none")
    => /\ fstate = "raised"
       /\ fres.exc = "IOError"
       /\ stack = <<>>
       /\ \A a \in DOMAIN heap : heap[a] = EmptyDict

\* C8 witness: the top-level load of absent.py has raised.
C8_Witness == fstate = "raised" /\ fres.file = "absent.py" /\ op.name = "fload_raise"

\* C9: an error raised by the body of a script, at any include depth, reaches
\* the caller of the top-level load_config.
C9_ScriptErrorsReachCaller ==
  op.name \in { "fraise", "fassign_raise", "fmerge_raise" }
    => fstate = "raised" /\ fres.exc = op.exc

\* ------------------------------------------------------------------ key=value loader
IsAsciiLetter(ch) == ch \in SeqRange(LowerChars) \cup SeqRange(UpperChars)
\* \w of the re module, over ASCII
IsWordChar(ch) == IsAsciiLetter(ch) \/ ch \in SeqRange(DigitChars) \/ ch = "_"

\* str.find(ch) + 1: the position of the first ch in text, 0 when there is none.
Find(text, ch) ==
  IF \E i \in 1..Len(text) : text[i] = ch
  THEN CHOOSE i \in 1..Len(text) :
         text[i] = ch /\ \A j \in 1..(i - 1) : text[j] # ch
  ELSE 0

\* text.split('.')
RECURSIVE SplitDots(_)
SplitDots(text) ==
  LET i == Find(text, ".") IN
  IF i = 0 THEN << text >>
  ELSE << SubSeq(text, 1, i - 1) >> \o SplitDots(SubSeq(text, i + 1, Len(text)))

\* kv_pattern.match(item) for [A-Za-z]\w*(\.\w+)*\=.* : the path part holds no
\* '=', so it is the text before the first '='.
kv_pattern(item) ==
  LET eq == Find(item, "=") IN
  /\ eq > 1
  /\ IsAsciiLetter(item[1])
  /\ \A comp \in SeqRange(SplitDots(SubSeq(item, 1, eq - 1))) :
       comp # <<>> /\ \A i \in 1..Len(comp) : IsWordChar(comp[i])

\* flag_pattern.match(item) for \-\-\w+(\-\w)* : match() anchors only the
\* start, so two dashes and one word character are enough.
flag_pattern(item) ==
  Len(item) >= 3 /\ item[1] = "-" /\ item[2] = "-" /\ IsWordChar(item[3])

\* Python keywords (the short ones; none of the longer ones is a component of
\* the model's tokens).
Keywords ==
  { <<"a","s">>, <<"i","f">>, <<"i","n">>, <<"i","s">>, <<"o","r">>, <<"a","n","d">>, <<"d","e","f">>, <<"d","e","l">>, <<"f","o","r">>,
    <<"n","o","t">>, <<"t","r","y">>, <<"N","o","n","e">>, <<"T","r","u","e">>, <<"e","l","s","e">>, <<"e","l","i","f">>, <<"f","r","o","m">>, <<"p","a","s","s">>, <<"w","i","t","h">> }

\* A name the Python grammar accepts as an attribute name.
IsIdentifier(w) ==
  /\ w # <<>>
  /\ IsAsciiLetter(w[1]) \/ w[1] = "_"
  /\ \A i \in 1..Len(w) : IsWordChar(w[i])
  /\ w \notin Keywords

\* Names bound where exec runs the statement: the locals of load_config and
\* the globals of the module (those spelled with the model's letters).
ExecScopeNames == { <<"s","e","l","f">>, <<"i","t","e","m">>, <<"l","h","s">>, <<"r","h","s">>, <<"r","e">>, <<"s","y","s">> }
ObjV(name) == [t |-> "obj", n |-> 0, s |-> name]

DigitOf(ch) == (CHOOSE i \in 1..10 : DigitChars[i] = ch) - 1

RECURSIVE DecValue(_)
DecValue(text) ==
  IF text = <<>> THEN 0
  ELSE 10 * DecValue(SubSeq(text, 1, Len(text) - 1)) + DigitOf(text[Len(text)])

\* A decimal integer literal: digits, with no leading zero unless all are zero.
IsIntLiteral(text) ==
  /\ text # <<>>
  /\ \A i \in 1..Len(text) : text[i] \in SeqRange(DigitChars)
  /\ \/ Len(text) = 1
     \/ text[1] # "0"
     \/ \A i \in 1..Len(text) : text[i] = "0"

QuoteChars == { "'", "\"" }

\* A string literal in one kind of quotes, without escapes.
IsStrLiteral(text) ==
  /\ Len(text) >= 2
  /\ text[1] \in QuoteChars
  /\ text[Len(text)] = text[1]
  /\ \A i \in 2..(Len(text) - 1) : text[i] # text[1] /\ text[i] # "\\"

\* repr(text) of a str without backslashes that does not hold both kinds of
\* quote: single quotes unless the text holds one.
Repr(text) ==
  IF "'" \in SeqRange(text) THEN << "\"" >> \o text \o << "\"" >>
  ELSE << "'" >> \o text \o << "'" >>

\* A right-hand side that is stored as its text, unevaluated.
EvalRhsAsText(rhs) == [exc |-> "none", v |-> StrV(rhs)]

\* The quotient of two decimal integers, num/den.
IsQuotient(text) ==
  /\ Find(text, "/") > 1
  /\ IsIntLiteral(SubSeq(text, 1, Find(text, "/") - 1))
  /\ IsIntLiteral(SubSeq(text, Find(text, "/") + 1, Len(text)))
Numerator(text) == SubSeq(text, 1, Find(text, "/") - 1)
Denominator(text) == SubSeq(text, Find(text, "/") + 1, Len(text))
\* The float num/den, kept as the numerator and the text of the denominator.
FloatV(num, den) == [t |-> "float", n |-> num, s |-> den]

\* The right-hand side of the statement, compiled and evaluated. The forms
\* are those of the model's tokens: a decimal integer, a quotient of two, a
\* quoted string, None, a name; other text does not compile. A name bound in
\* the scope evaluates to the object it is bound to.
EvalRhs(rhs) ==
  IF IsIntLiteral(rhs) THEN [exc |-> "none", v |-> IntV(DecValue(rhs))]
  ELSE IF IsQuotient(rhs)
  THEN IF DecValue(Denominator(rhs)) = 0
       THEN [exc |-> "ZeroDivisionError", v |-> NoneV]
       ELSE [exc |-> "none", v |-> FloatV(DecValue(Numerator(rhs)), Denominator(rhs))]
  ELSE IF IsStrLiteral(rhs)
  THEN [exc |-> "none", v |-> StrV(SubSeq(rhs, 2, Len(rhs) - 1))]
  ELSE IF rhs = <<"N","o","n","e">> THEN [exc |-> "none", v |-> NoneV]
  ELSE IF IsIdentifier(rhs)
  THEN IF IsBuiltin(rhs) THEN [exc |-> "none", v |-> BuiltinV(rhs)]
       ELSE IF rhs \in ExecScopeNames THEN [exc |-> "none", v |-> ObjV(rhs)]
       ELSE [exc |-> "NameError", v |-> NoneV]
  ELSE [exc |-> "SyntaxError", v |-> NoneV]

\* exec('self.config.' + lhs + '=' + rhs): the statement is compiled, then the
\* right-hand side is evaluated, then the target. A right-hand side that
\* starts with '=' makes the statement the comparison  self.config.lhs == ... ,
\* which evaluates its left operand first and assigns nothing.
ExecStr(st, c, lhs, rhs) ==
  LET path == SplitDots(lhs)
      cmp == rhs # <<>> /\ rhs[1] = "="
      e == EvalRhs(IF cmp THEN Tail(rhs) ELSE rhs)
  IN IF (\E i \in 1..Len(path) : ~IsIdentifier(path[i])) \/ e.exc = "SyntaxError"
     THEN Res(st, NoneV, "SyntaxError")
     ELSE IF cmp
     THEN LET g == ExecLookup(st, c, path) IN
          IF g.exc # "none" THEN g ELSE Res(g.st, NoneV, e.exc)
     ELSE IF e.exc # "none" THEN Res(st, NoneV, e.exc)
     ELSE ExecAssign(st, c, path, e.v)

\* The alias and flag tables the loader is constructed with.
\* The alias n stands for A.x and the alias N for n. The flag v sets A.x = 3,
\* the payload of the flag w holds a Config (made by the caller, before the
\* loader) under the key T of the section A, and the payload of the flag b is
\* a string.
aliases == [a \in { <<"n">>, <<"N">> } |-> IF a = <<"n">> THEN <<"A",".","x">> ELSE <<"n">>]
FlagDict(secs) == [kind |-> "dict", secs |-> secs]
FlagStr == [kind |-> "str", secs |-> <<>>]
FlagPayloadConfig == CfgV(1)
flags ==
  [f \in { <<"v">>, <<"w">>, <<"b">> } |->
     IF f = <<"v">>
     THEN FlagDict(<< [sec |-> <<"A">>, d |-> [k \in { <<"x">> } |-> IntV(3)]] >>)
     ELSE IF f = <<"w">>
     THEN FlagDict(<< [sec |-> <<"A">>, d |-> [k \in { <<"T">> } |-> FlagPayloadConfig]] >>)
     ELSE FlagStr]

\* A flag whose payload sections replace the sections of the config.
RECURSIVE ApplyFlagReplace(_, _, _, _)
ApplyFlagReplace(st, c, secs, i) ==
  IF i > Len(secs) THEN Res(st, NoneV, "none")
  ELSE LET g == GetItem(st, c, secs[i].sec) IN
       IF g.exc # "none" THEN g
       ELSE IF ~IsConfig(g.ret) THEN Res(g.st, NoneV, "AttributeError")
       ELSE ApplyFlagReplace([g.st EXCEPT !.h[g.ret.n] = secs[i].d],
                             c, secs, i + 1)

\* for sec, c in cfg.items(): self.config[sec].update(c)
RECURSIVE ApplyFlag(_, _, _, _)
ApplyFlag(st, c, secs, i) ==
  IF i > Len(secs) THEN Res(st, NoneV, "none")
  ELSE LET g == GetItem(st, c, secs[i].sec) IN
       IF g.exc # "none" THEN g
       ELSE IF ~IsConfig(g.ret) THEN Res(g.st, NoneV, "AttributeError")
       ELSE ApplyFlag([g.st EXCEPT !.h[g.ret.n] = DictUpdate(@, secs[i].d)],
                      c, secs, i + 1)

KVOut(st, extra, exc, msg) == [st |-> st, extra |-> extra, exc |-> exc, msg |-> msg]

\* The except clause of the assignment: a NameError or SyntaxError of the
\* first exec makes a second one run with repr(rhs) as the right-hand side.
ExecWithFallback(r1, c, lhs, rhs) ==
  IF r1.exc \in { "NameError", "SyntaxError" }
  THEN ExecStr(r1.st, c, lhs, Repr(rhs))
  ELSE r1

\* An assignment token whose alias is substituted again on its own result.
ProcessAssignmentRepeat(st, c, lhs0, rhs) ==
  ExecWithFallback(
    ExecStr(st, c,
            IF lhs0 \notin DOMAIN aliases THEN lhs0
            ELSE IF aliases[lhs0] \notin DOMAIN aliases THEN aliases[lhs0]
            ELSE aliases[aliases[lhs0]], rhs),
    c,
    IF lhs0 \notin DOMAIN aliases THEN lhs0
    ELSE IF aliases[lhs0] \notin DOMAIN aliases THEN aliases[lhs0]
    ELSE aliases[aliases[lhs0]], rhs)

\* An assignment token: split at the first '=', substitute the alias, exec.
ProcessAssignment(st, c, lhs0, rhs) ==
  ExecWithFallback(ExecStr(st, c, IF lhs0 \in DOMAIN aliases THEN aliases[lhs0] ELSE lhs0, rhs),
                   c, IF lhs0 \in DOMAIN aliases THEN aliases[lhs0] ELSE lhs0, rhs)

\* A flag token of which an unknown name is passed over.
ProcessFlagIgnoreUnknown(st, c, m) ==
  IF m \notin DOMAIN flags
  THEN [st |-> st, exc |-> "none", msg |-> ""]
  ELSE IF flags[m].kind = "dict"
  THEN [st |-> ApplyFlag(st, c, flags[m].secs, 1).st,
        exc |-> ApplyFlag(st, c, flags[m].secs, 1).exc, msg |-> ""]
  ELSE [st |-> st, exc |-> "NameError", msg |-> "name 'flag' is not defined"]

\* A flag token, m its text after the two dashes.
ProcessFlag(st, c, m) ==
  IF m \notin DOMAIN flags
  THEN [st |-> st, exc |-> "ArgumentError", msg |-> "Unrecognized flag"]
  ELSE IF flags[m].kind = "dict"
  THEN [st |-> ApplyFlag(st, c, flags[m].secs, 1).st,
        exc |-> ApplyFlag(st, c, flags[m].secs, 1).exc, msg |-> ""]
  ELSE [st |-> st, exc |-> "NameError", msg |-> "name 'flag' is not defined"]

\* A loop body that keeps a dash-prefixed token that is no flag as an extra
\* argument.
ProcessItemKeepDash(st, c, extra, item) ==
  IF kv_pattern(item)
  THEN KVOut(ProcessAssignment(st, c, SubSeq(item, 1, Find(item, "=") - 1),
                               SubSeq(item, Find(item, "=") + 1, Len(item))).st,
             extra,
             ProcessAssignment(st, c, SubSeq(item, 1, Find(item, "=") - 1),
                               SubSeq(item, Find(item, "=") + 1, Len(item))).exc,
             "")
  ELSE IF flag_pattern(item)
  THEN KVOut(ProcessFlag(st, c, SubSeq(item, 3, Len(item))).st, extra,
             ProcessFlag(st, c, SubSeq(item, 3, Len(item))).exc,
             ProcessFlag(st, c, SubSeq(item, 3, Len(item))).msg)
  ELSE KVOut(st, Append(extra, item), "none", "")

\* A loop body that puts an extra argument in front of the earlier ones.
ProcessItemPrepend(st, c, extra, item) ==
  IF kv_pattern(item)
  THEN KVOut(ProcessAssignment(st, c, SubSeq(item, 1, Find(item, "=") - 1),
                               SubSeq(item, Find(item, "=") + 1, Len(item))).st,
             extra,
             ProcessAssignment(st, c, SubSeq(item, 1, Find(item, "=") - 1),
                               SubSeq(item, Find(item, "=") + 1, Len(item))).exc,
             "")
  ELSE IF flag_pattern(item)
  THEN KVOut(ProcessFlag(st, c, SubSeq(item, 3, Len(item))).st, extra,
             ProcessFlag(st, c, SubSeq(item, 3, Len(item))).exc,
             ProcessFlag(st, c, SubSeq(item, 3, Len(item))).msg)
  ELSE IF item # <<>> /\ item[1] = "-"
  THEN KVOut(st, extra, "ArgumentError", "Invalid argument")
  ELSE KVOut(st, << item >> \o extra, "none", "")

\* The body of the loop of KeyValueConfigLoader.load_config for one token.
ProcessItem(st, c, extra, item) ==
  IF kv_pattern(item)
  THEN KVOut(ProcessAssignment(st, c, SubSeq(item, 1, Find(item, "=") - 1),
                               SubSeq(item, Find(item, "=") + 1, Len(item))).st,
             extra,
             ProcessAssignment(st, c, SubSeq(item, 1, Find(item, "=") - 1),
                               SubSeq(item, Find(item, "=") + 1, Len(item))).exc,
             "")
  ELSE IF flag_pattern(item)
  THEN KVOut(ProcessFlag(st, c, SubSeq(item, 3, Len(item))).st, extra,
             ProcessFlag(st, c, SubSeq(item, 3, Len(item))).exc,
             ProcessFlag(st, c, SubSeq(item, 3, Len(item))).msg)
  ELSE IF item # <<>> /\ item[1] = "-"
  THEN KVOut(st, extra, "ArgumentError", "Invalid argument")
  ELSE KVOut(st, Append(extra, item), "none", "")

\* A loop that takes the tokens from the last to the first.
RECURSIVE ProcessArgsBackwards(_, _, _, _)
ProcessArgsBackwards(out, c, argv, i) ==
  IF i > Len(argv) \/ out.exc # "none" THEN out
  ELSE ProcessArgsBackwards(ProcessItem(out.st, c, out.extra, argv[Len(argv) + 1 - i]),
                            c, argv, i + 1)

\* The loop of KeyValueConfigLoader.load_config over the tokens from the i-th
\* on, out being the outcome so far; an exception ends it where it is.
RECURSIVE ProcessArgs(_, _, _, _)
ProcessArgs(out, c, argv, i) ==
  IF i > Len(argv) \/ out.exc # "none" THEN out
  ELSE ProcessArgs(ProcessItem(out.st, c, out.extra, argv[i]), c, argv, i + 1)

KVStep(name, st, cfg, extra, res) ==
  /\ heap' = st.h
  /\ nalloc' = st.n
  /\ kvcfg' = cfg
  /\ extra_args' = extra
  /\ kvres' = res
  /\ pre' = heap
  /\ op' = [NoOp EXCEPT !.name = name, !.c = cfg, !.p = res.argv, !.exc = res.exc]
  /\ UNCHANGED << nops, filevars, kvargv, copied, parsed >>

\* What load_config delivers: the config it returns, or the exception.
KVResult(out, cfg, argv) ==
  IF out.exc = "none"
  THEN [state |-> "returned", exc |-> "none", msg |-> "", cfg |-> cfg, argv |-> argv]
  ELSE [state |-> "raised", exc |-> out.exc, msg |-> out.msg, cfg |-> 0, argv |-> argv]

\* load_config(argv): clear(), then the loop over the tokens.
RunLoad(st, argv) ==
  [cfg |-> NewConfig(st).ret.n,
   exc |-> NewConfig(st).exc,
   out |-> IF NewConfig(st).exc # "none"
           THEN KVOut(st, <<>>, NewConfig(st).exc, "")
           ELSE ProcessArgs(KVOut(NewConfig(st).st, <<>>, "none", ""),
                            NewConfig(st).ret.n, argv, 1)]

\* loader.load_config(argv) with the constructor's aliases and flags; argv is
\* self.argv when the call gives none.
KVLoadFinish(run, argv) ==
  /\ run.exc # "bound"
  /\ run.out.exc # "bound"
  /\ KVStep("kvload", run.out.st, run.cfg, run.out.extra, KVResult(run.out, run.cfg, argv))

KVLoadConfig(argv) == KVLoadFinish(RunLoad(St, argv), argv)

\* loader.clear()
KVClear ==
  LET n == NewConfig(St) IN
  /\ n.exc # "bound"
  /\ KVStep("kvclear", n.st, n.ret.n, <<>>, kvres)

\* The token lists load_config is called with, other than self.argv.
Reloads ==
  { << <<"-","-","w">> >>,
    << <<"g">>, <<"A",".","y","=","'","s","'">> >> }

\* The command line tokens the loader is constructed with.
Tokens ==
  { <<"A",".","x","=","1">>,
    <<"A",".","x","=","2">>,
    <<"A",".","y","=","'","s","'">>,
    <<"A",".","T",".","x","=","1">>,
    <<"x","=","w">>,
    <<"x","=","l","e","n">>,
    <<"x","=","1","/","0">>,
    <<"A","=","1">>,
    <<"n","=","2">>,
    <<"N","=","2">>,
    <<"N",".","y","=","1">>,
    <<"-","-","v">>,
    <<"-","-","w">>,
    <<"-","-","u">>,
    <<"-","-","b">>,
    <<"-","x">>,
    <<"f">>,
    <<"g">> }

KVAddrs == 1..(MaxObj + 2)

\* flags = {..., 'w': ({'A': {'T': Config()}}, ...)}
\* loader = KeyValueConfigLoader(argv, aliases, flags)
InitKV ==
  /\ heap = [a \in KVAddrs |-> EmptyDict]
  /\ nalloc = 2
  /\ op = NoOp
  /\ pre = [a \in KVAddrs |-> EmptyDict]
  /\ nops = 0
  /\ files = <<>>
  /\ stack = <<>>
  /\ fstate = "idle"
  /\ fres = [file |-> "", exc |-> "none", cfg |-> 0]
  /\ \E argv \in SeqsUpTo(Tokens, MaxArgs) : kvargv = argv
  /\ kvcfg = 2
  /\ extra_args = <<>>
  /\ kvres = KVNoResult
  /\ copied = NoCopy
  /\ parsed = NotParsed

NextKV ==
  \/ \E argv \in { kvargv } \cup Reloads : KVLoadConfig(argv)
  \/ KVClear

SpecKV == InitKV /\ [][NextKV]_vars

\* ------------------------------------------------------------------ the argparse loader
\* A subclass of ArgParseConfigLoader whose _add_arguments declares three
\* options that store a constant and one default:
\*   --p  stores 1 under the name A.x        --q  stores 2 under the name y
\*   --r  stores 1 under the name a.x        the name A.d has the default 7
\* The tokens of a command line are Python strings.
APOptions ==
  [t \in { <<"-","-","p">>, <<"-","-","q">>, <<"-","-","r">> } |->
     IF t = <<"-","-","p">> THEN [name |-> <<"A",".","x">>, v |-> IntV(1)]
     ELSE IF t = <<"-","-","q">> THEN [name |-> <<"y">>, v |-> IntV(2)]
     ELSE [name |-> <<"a",".","x">>, v |-> IntV(1)]]
APDefaults == << [name |-> <<"A",".","d">>, v |-> IntV(7)] >>
APTokens == { <<"-","-","p">>, <<"-","-","q">>, <<"-","-","r">>, <<"f">> }

\* The namespace data with the name of pair set to its value: a name the
\* namespace has keeps its place, a new one comes last.
SetPair(data, pair) ==
  IF \E i \in 1..Len(data) : data[i].name = pair.name
  THEN [i \in 1..Len(data) |-> IF data[i].name = pair.name THEN pair ELSE data[i]]
  ELSE Append(data, pair)

\* parser.parse_known_args(args): the namespace, as the sequence of its
\* name/value pairs, and the list of the tokens no option consumed.
RECURSIVE ParseFrom(_, _, _, _)
ParseFrom(args, i, data, extra) ==
  IF i > Len(args) THEN [data |-> data, extra |-> extra]
  ELSE IF args[i] \in DOMAIN APOptions
  THEN ParseFrom(args, i + 1, SetPair(data, APOptions[args[i]]), extra)
  ELSE ParseFrom(args, i + 1, data, Append(extra, args[i]))

parse_known_args(args) == ParseFrom(args, 1, APDefaults, <<>>)

\* The loop of _parse_args over the tokens: a token that is a str is sent
\* decode, which a str does not have.
DecodeArgs(args) == IF args # <<>> THEN "AttributeError" ELSE "none"

\* _convert_to_config: for each pair of the namespace from the i-th on, exec
\* 'self.config.' + name + '= v'.
RECURSIVE _convert_to_config(_, _, _, _)
_convert_to_config(st, c, data, i) ==
  IF i > Len(data) THEN Res(st, NoneV, "none")
  ELSE IF ExecAssign(st, c, SplitDots(data[i].name), data[i].v).exc # "none"
  THEN ExecAssign(st, c, SplitDots(data[i].name), data[i].v)
  ELSE _convert_to_config(ExecAssign(st, c, SplitDots(data[i].name), data[i].v).st,
                          c, data, i + 1)

\* _parse_args and _convert_to_config on the new config c; pd is what
\* self.parsed_data and self.extra_args were.
ParseAndConvert(st, c, argv, pd) ==
  IF DecodeArgs(argv) # "none"
  THEN [st |-> st, exc |-> DecodeArgs(argv), pd |-> pd]
  ELSE [st |-> _convert_to_config(st, c, parse_known_args(argv).data, 1).st,
        exc |-> _convert_to_config(st, c, parse_known_args(argv).data, 1).exc,
        pd |-> [has |-> TRUE, data |-> parse_known_args(argv).data,
                extra |-> parse_known_args(argv).extra]]

APStep(name, st, cfg, pd, res) ==
  /\ heap' = st.h
  /\ nalloc' = st.n
  /\ kvcfg' = cfg
  /\ parsed' = pd
  /\ kvres' = res
  /\ pre' = heap
  /\ op' = [NoOp EXCEPT !.name = name, !.c = cfg, !.p = res.argv, !.exc = res.exc]
  /\ UNCHANGED << nops, filevars, kvargv, extra_args, copied >>

\* What ArgParseConfigLoader.load_config delivers.
APResult(exc, cfg, argv) ==
  IF exc = "none"
  THEN [state |-> "returned", exc |-> "none", msg |-> "", cfg |-> cfg, argv |-> argv]
  ELSE [state |-> "raised", exc |-> exc, msg |-> "", cfg |-> 0, argv |-> argv]

\* ArgParseConfigLoader.load_config(argv): clear(), which makes a new config,
\* then the parser is made, the tokens are parsed and the namespace is
\* converted.
APLoadConfig(argv) ==
  /\ NewConfig(St).exc # "bound"
  /\ ParseAndConvert(NewConfig(St).st, NewConfig(St).ret.n, argv, parsed).exc # "bound"
  /\ APStep("apload",
            ParseAndConvert(NewConfig(St).st, NewConfig(St).ret.n, argv, parsed).st,
            NewConfig(St).ret.n,
            ParseAndConvert(NewConfig(St).st, NewConfig(St).ret.n, argv, parsed).pd,
            APResult(ParseAndConvert(NewConfig(St).st, NewConfig(St).ret.n, argv, parsed).exc,
                     NewConfig(St).ret.n, argv))

\* loader.clear(): ConfigLoader.clear, a new config; the attributes the last
\* parse set stay.
APClear ==
  /\ NewConfig(St).exc # "bound"
  /\ APStep("apclear", NewConfig(St).st, NewConfig(St).ret.n, parsed, kvres)

\* loader.get_extra_args()
get_extra_args == IF parsed.has THEN parsed.extra ELSE <<>>

APGetExtraArgs ==
  /\ op.name # "get_extra_args"
  /\ op' = [NoOp EXCEPT !.name = "get_extra_args", !.c = kvcfg, !.p = get_extra_args]
  /\ pre' = heap
  /\ UNCHANGED << heap, nalloc, nops, filevars, kvvars, copied, parsed >>

InitArg ==
  /\ heap = [a \in KVAddrs |-> EmptyDict]
  /\ nalloc = 1
  /\ op = NoOp
  /\ pre = [a \in KVAddrs |-> EmptyDict]
  /\ nops = 0
  /\ files = <<>>
  /\ stack = <<>>
  /\ fstate = "idle"
  /\ fres = [file |-> "", exc |-> "none", cfg |-> 0]
  /\ \E argv \in SeqsUpTo(APTokens, MaxArgs) : kvargv = argv
  /\ kvcfg = 1
  /\ extra_args = <<>>
  /\ kvres = KVNoResult
  /\ copied = NoCopy
  /\ parsed = NotParsed

NextArg ==
  \/ \E argv \in { kvargv, <<>> } : APLoadConfig(argv)
  \/ APClear
  \/ APGetExtraArgs

SpecArg == InitArg /\ [][NextArg]_vars

\* ------------------------------------------------------------------ claims on the key=value loader
\* The dotted path a token assigns to, after alias substitution, its
\* right-hand text, and whether that text is a literal.
TokLhs(item) ==
  LET lhs0 == SubSeq(item, 1, Find(item, "=") - 1) IN
  IF lhs0 \in DOMAIN aliases THEN aliases[lhs0] ELSE lhs0
TokPath(item) == SplitDots(TokLhs(item))
TokRhs(item) == SubSeq(item, Find(item, "=") + 1, Len(item))
IsLiteral(text) == IsIntLiteral(text) \/ IsStrLiteral(text) \/ text = <<"N","o","n","e">>

\* The value a literal denotes.
LiteralValue(text) ==
  IF IsIntLiteral(text) THEN IntV(DecValue(text))
  ELSE IF IsStrLiteral(text) THEN StrV(SubSeq(text, 2, Len(text) - 1))
  ELSE NoneV
IsLiteralAssignment(item) == kv_pattern(item) /\ IsLiteral(TokRhs(item))

\* The config value that holds v at path in t, intermediate sections created.
RECURSIVE PutTree(_, _, _)
PutTree(t, path, v) ==
  TreeV([k \in DOMAIN t.d \cup { path[1] } |->
           IF k # path[1] THEN t.d[k]
           ELSE IF Len(path) = 1 THEN LeafT(v)
           ELSE PutTree(IF k \in DOMAIN t.d /\ t.d[k].t = "tree"
                        THEN t.d[k] ELSE TreeV(EmptyDict),
                        Tail(path), v)])

\* The config value that holds the value of each of the first n tokens at the
\* token's path, and nothing else.
RECURSIVE TreeOfTokens(_, _)
TreeOfTokens(argv, n) ==
  IF n = 0 THEN TreeV(EmptyDict)
  ELSE PutTree(TreeOfTokens(argv, n - 1), TokPath(argv[n]), LiteralValue(TokRhs(argv[n])))

\* load_config has run on a token list made only of assignments of literals.
LiteralAssignmentsLoaded ==
  /\ kvres.state # "idle"
  /\ \A i \in 1..Len(kvres.argv) : IsLiteralAssignment(kvres.argv[i])

LoadedExactlyTheTokens ==
  /\ kvres.state = "returned"
  /\ \A i \in 1..Len(kvres.argv) :
       ReadPath(heap, kvres.cfg, TokPath(kvres.argv[i])) = LiteralValue(TokRhs(kvres.argv[i]))
  /\ TreeOf(heap, kvres.cfg) = TreeOfTokens(kvres.argv, Len(kvres.argv))
  /\ op.name = "kvload" => extra_args = <<>>

\* C10 (as stated): for a token list made only of assignment tokens with
\* literal right-hand sides, load_config returns a config that holds at each
\* token's path the value of its right-hand side and nothing else, and the
\* extra-args list is empty.
C10_AssignmentsLoadedAsStated ==
  LiteralAssignmentsLoaded => LoadedExactlyTheTokens

\* A path load_config can assign to: every component is a name of ASCII
\* letters, digits and underscores that is no keyword and no builtin name,
\* the components before the last begin with an upper-case letter and the
\* last one with a lower-case letter or an underscore.
AssignablePath(path) ==
  \A k \in 1..Len(path) :
    /\ IsIdentifier(path[k])
    /\ ~IsBuiltin(path[k])
    /\ k < Len(path) => path[k][1] \in SeqRange(UpperChars)
    /\ k = Len(path) => path[k][1] \in SeqRange(LowerChars) \cup { "_" }

\* C10 (amended): the same, for token lists whose paths are assignable and
\* pairwise different.
C10_AssignmentsLoaded ==
  (/\ LiteralAssignmentsLoaded
   /\ \A i \in 1..Len(kvres.argv) : AssignablePath(TokPath(kvres.argv[i]))
   /\ \A i, j \in 1..Len(kvres.argv) :
        i # j => TokPath(kvres.argv[i]) # TokPath(kvres.argv[j]))
    => LoadedExactlyTheTokens

\* C10 witness: two assignments of literals to different leaves of one section
\* have been loaded.
C10_Witness ==
  /\ op.name = "kvload"
  /\ kvres.state = "returned"
  /\ kvres.argv = << <<"A",".","x","=","1">>, <<"A",".","y","=","'","s","'">> >>

\* The store as it was when the last load_config call started, the run of
\* load_config from it on the first n tokens of the call's token list, and
\* whether the loader's state is the one that run ends in.
PreStore == [h |-> pre, n |-> op.c - 1]
PrefixRun(n) == RunLoad(PreStore, SubSeq(op.p, 1, n))
StateIsAfterPrefix(n) ==
  /\ heap = PrefixRun(n).out.st.h
  /\ kvcfg = PrefixRun(n).cfg
  /\ extra_args = PrefixRun(n).out.extra

IsUnknownFlag(item) ==
  /\ ~kv_pattern(item)
  /\ flag_pattern(item)
  /\ SubSeq(item, 3, Len(item)) \notin DOMAIN flags

\* C11: when the tokens before a flag token with an unknown name are processed
\* without error, load_config fails at that token with the unrecognized-flag
\* ArgumentError, and the loader's config and extra-args list are then what
\* the tokens before it produced.
C11_UnknownFlagFails ==
  op.name = "kvload" =>
    \A i \in 1..Len(op.p) :
      (IsUnknownFlag(op.p[i]) /\ PrefixRun(i - 1).out.exc = "none")
        => /\ kvres.state = "raised"
           /\ kvres.exc = "ArgumentError"
           /\ kvres.msg = "Unrecognized flag"
           /\ StateIsAfterPrefix(i - 1)

\* C11 witness: load_config failed at an unknown flag that follows an
\* assignment, whose value the config holds.
C11_Witness ==
  /\ op.name = "kvload"
  /\ op.p = << <<"A",".","x","=","1">>, <<"-","-","u">> >>
  /\ kvres.state = "raised"
  /\ ReadPath(heap, kvcfg, << <<"A">>, <<"x">> >>) = IntV(1)

IsDashOnly(item) ==
  /\ item # <<>>
  /\ item[1] = "-"
  /\ ~kv_pattern(item)
  /\ ~flag_pattern(item)

\* C12: when the tokens before a dash-prefixed token that has neither the
\* assignment nor the flag shape are processed without error, load_config
\* fails at that token with ArgumentError, the config and the extra-args list
\* being what the tokens before it produced; no such token is ever in the
\* extra-args list.
C12_DashTokenFails ==
  /\ \A j \in 1..Len(extra_args) : ~IsDashOnly(extra_args[j])
  /\ op.name = "kvload" =>
       \A i \in 1..Len(op.p) :
         (IsDashOnly(op.p[i]) /\ PrefixRun(i - 1).out.exc = "none")
           => /\ kvres.state = "raised"
              /\ kvres.exc = "ArgumentError"
              /\ kvres.msg = "Invalid argument"
              /\ StateIsAfterPrefix(i - 1)

\* C12 witness: load_config failed at a dash-prefixed token that follows an
\* extra argument.
C12_Witness ==
  /\ op.name = "kvload"
  /\ op.p = << <<"f">>, <<"-","x">> >>
  /\ kvres.state = "raised"
  /\ extra_args = << <<"f">> >>

IsPositional(item) ==
  /\ ~kv_pattern(item)
  /\ ~flag_pattern(item)
  /\ ~(item # <<>> /\ item[1] = "-")

LastToken == op.p[Len(op.p)]
LastLhs == SubSeq(LastToken, 1, Find(LastToken, "=") - 1)
BeforeLast == PrefixRun(Len(op.p) - 1)

\* load_config returned and its last token assigns a literal.
LastAssignsLiteral ==
  /\ op.name = "kvload"
  /\ kvres.state = "returned"
  /\ op.p # <<>>
  /\ kv_pattern(LastToken)
  /\ IsLiteral(TokRhs(LastToken))

\* C14: an assignment token whose whole left-hand path L is an alias writes
\* its value at aliases[L], taken once, and nothing at L or anywhere else; any
\* other assignment token writes its value at L, also when the first component
\* of L is an alias.
C14_AliasWholePathOnce ==
  LastAssignsLiteral =>
    TreeOf(heap, kvcfg) =
      PutTree(TreeOf(BeforeLast.out.st.h, BeforeLast.cfg),
              IF LastLhs \in DOMAIN aliases
              THEN SplitDots(aliases[LastLhs]) ELSE SplitDots(LastLhs),
              LiteralValue(TokRhs(LastToken)))

\* C14 witness: N is an alias of n and n an alias of A.x; N=2 wrote at n,
\* not at N and not at A.x.
C14_Witness ==
  /\ LastAssignsLiteral
  /\ op.p = << <<"A",".","x","=","1">>, <<"N","=","2">> >>
  /\ ReadPath(heap, kvcfg, << <<"n">> >>) = IntV(2)
  /\ ReadPath(heap, kvcfg, << <<"A">>, <<"x">> >>) = IntV(1)
  /\ <<"N">> \notin DOMAIN heap[kvcfg]

\* A right-hand side that is one unquoted word and no literal.
IsBareWord(text) ==
  /\ text # <<>>
  /\ \A k \in 1..Len(text) : IsWordChar(text[k])
  /\ text[1] \notin SeqRange(DigitChars)
  /\ ~IsLiteral(text)

\* load_config ran on tokens of which the last is an assignment to an
\* assignable path, the tokens before it being processed without error.
LastIsAssignment ==
  /\ op.name = "kvload"
  /\ op.p # <<>>
  /\ kv_pattern(LastToken)
  /\ AssignablePath(TokPath(LastToken))
  /\ BeforeLast.out.exc = "none"

\* C15: an assignment token whose right-hand side is an unquoted bare word
\* stores the string equal to the right-hand text at its path; when the
\* evaluation of a right-hand side fails otherwise, load_config fails with
\* that error and the token stores nothing.
C15_BareWordStoredAsString ==
  /\ (LastIsAssignment /\ IsBareWord(TokRhs(LastToken)))
       => /\ kvres.state = "returned"
          /\ ReadPath(heap, kvcfg, TokPath(LastToken)) = StrV(TokRhs(LastToken))
  /\ (LastIsAssignment /\ IsQuotient(TokRhs(LastToken))
        /\ DecValue(Denominator(TokRhs(LastToken))) = 0)
       => /\ kvres.state = "raised"
          /\ kvres.exc = "ZeroDivisionError"
          /\ TreeOf(heap, kvcfg) = TreeOf(BeforeLast.out.st.h, BeforeLast.cfg)

\* load_config returned and its last token is a flag of the flags table whose
\* payload is a mapping of sections.
LastIsKnownFlag ==
  /\ op.name = "kvload"
  /\ kvres.state = "returned"
  /\ op.p # <<>>
  /\ ~kv_pattern(LastToken)
  /\ flag_pattern(LastToken)
  /\ SubSeq(LastToken, 3, Len(LastToken)) \in DOMAIN flags
  /\ flags[SubSeq(LastToken, 3, Len(LastToken))].kind = "dict"

LastPayload == flags[SubSeq(LastToken, 3, Len(LastToken))].secs

\* The section sec of the config value t, empty when t has none.
SectionOf(t, sec) == IF sec \in DOMAIN t.d THEN t.d[sec].d ELSE EmptyDict

\* The config value t with, for each section of the payload from the i-th on,
\* each key of the payload section set to the payload's value, the other keys
\* of the section and the other sections as they are in t.
RECURSIVE PayloadPut(_, _, _)
PayloadPut(t, secs, i) ==
  IF i > Len(secs) THEN t
  ELSE PayloadPut(
         TreeV([s \in DOMAIN t.d \cup { secs[i].sec } |->
                  IF s # secs[i].sec THEN t.d[s]
                  ELSE TreeV([k \in DOMAIN SectionOf(t, s) \cup DOMAIN secs[i].d |->
                                IF k \in DOMAIN secs[i].d
                                THEN Tree(heap, secs[i].d[k], MaxObj + 1)
                                ELSE SectionOf(t, s)[k]])]),
         secs, i + 1)

FreshStore == [h |-> [a \in KVAddrs |-> EmptyDict], n |-> 2]
FreshRun == RunLoad(FreshStore, op.p)

\* C17: whatever clear and load_config calls came before, load_config(argv)
\* ends as it does on a freshly constructed loader, returns a config equal to
\* the one the fresh loader returns, and leaves only tokens of argv in the
\* extra-args list.
C17_LoadDependsOnlyOnArgv ==
  op.name = "kvload" =>
    /\ kvres.exc = FreshRun.out.exc
    /\ kvres.state = "returned"
         => TreeOf(heap, kvres.cfg) = TreeOf(FreshRun.out.st.h, FreshRun.cfg)
    /\ extra_args = FreshRun.out.extra
    /\ \A j \in 1..Len(extra_args) : \E i \in 1..Len(op.p) : extra_args[j] = op.p[i]

\* C18: a step of the loader, clear or load_config, leaves the config that
\* the last load_config returned and every section nested in it unchanged,
\* and a load_config that returns then returns another object.
C18_ReturnedConfigNotModified ==
  [][kvres.state = "returned"
       => /\ \A a \in Reach(heap, kvres.cfg) : heap'[a] = heap[a]
          /\ (op'.name = "kvload" /\ kvres'.state = "returned")
               => kvres'.cfg # kvres.cfg]_vars

\* ------------------------------------------------------------------ claims on deep copies
\* The Configs of the original of the copy, the original included, and those
\* of the copy, in the heap h.
OrigSide(h) == Reach(h, copied.src)
CopySide(h) == Reach(h, copied.dst)

\* The step is copy.deepcopy returning: the copy equals the original, shares
\* no Config with it, and no Config that existed is changed.
CopyIsEqualAndApart ==
  (op'.name = "deepcopy" /\ op'.exc = "none")
    => /\ TreeOf(heap', copied'.dst) = TreeOf(heap, copied'.src)
       /\ Reach(heap', copied'.dst) \cap Reach(heap', copied'.src) = {}
       /\ \A a \in 1..nalloc : heap'[a] = heap[a]

\* The step is a call on a Config of the copy that leaves the Configs of the
\* original unchanged, or one on a Config of the original that leaves those
\* of the copy unchanged.
OtherSideUnchanged ==
  /\ op'.c \in CopySide(heap) => \A a \in OrigSide(heap) : heap'[a] = heap[a]
  /\ op'.c \in OrigSide(heap) => \A a \in CopySide(heap) : heap'[a] = heap[a]

\* The argument of a merge into a Config of one side holds no Config of the
\* other side.
MergeArgumentApart ==
  op'.name = "merge" =>
    /\ op'.c \in CopySide(heap) => Reach(heap, op'.b) \cap OrigSide(heap) = {}
    /\ op'.c \in OrigSide(heap) => Reach(heap, op'.b) \cap CopySide(heap) = {}

\* C19 as stated: after D = deepcopy(C), D equals C, and every set, get and
\* merge on D or on a Config nested in D leaves C and the Configs nested in C
\* unchanged, and likewise with C and D exchanged.
C19_CopyIndependentAsStated ==
  [][/\ CopyIsEqualAndApart
     /\ (copied.dst # 0 /\ nops' = nops + 1) => OtherSideUnchanged]_vars

\* C19: after D = deepcopy(C), D equals C and shares no Config with C; while
\* the two share no Config, every set, get and merge on a Config of one side
\* whose argument holds no Config of the other side leaves the Configs of the
\* other side unchanged, and the two sides still share no Config.
C19_CopyIndependent ==
  [][/\ CopyIsEqualAndApart
     /\ (/\ copied.dst # 0
         /\ nops' = nops + 1
         /\ op'.c \in OrigSide(heap) \cup CopySide(heap)
         /\ OrigSide(heap) \cap CopySide(heap) = {}
         /\ MergeArgumentApart)
          => /\ OtherSideUnchanged
             /\ OrigSide(heap') \cap CopySide(heap') = {}]_vars

\* C19 witness: C.A.x was 1 when C was copied; a set on the section A of the
\* copy made D.A.x 2 and C.A.x is still 1.
C19_Witness ==
  /\ copied.dst # 0
  /\ op.name = "set" /\ op.exc = "none"
  /\ op.c \in CopySide(heap) \ { copied.dst }
  /\ OrigSide(heap) \cap CopySide(heap) = {}
  /\ ReadPath(heap, copied.src, CopyPath) = IntV(1)
  /\ ReadPath(heap, copied.dst, CopyPath) = IntV(2)

\* ------------------------------------------------------------------ claims on item access
\* A section key as the specification defines it: the first character is an
\* upper-case letter.
BeginsUpperCase(key) == key # <<>> /\ key[1] \in SeqRange(UpperChars)

\* C20: set(key, value) fails exactly when key is the name of a builtin, with
\* ConfigError, or else key is a section key and value is no Config, with
\* ValueError; a failed set leaves the mapping unchanged; in every other case
\* set succeeds.
C20_SetFailsExactly ==
  op.name = "set" =>
    /\ op.exc = (IF IsBuiltin(op.k) THEN "ConfigError"
                 ELSE IF BeginsUpperCase(op.k) /\ ~IsConfig(op.v) THEN "ValueError"
                 ELSE "none")
    /\ op.exc # "none" => heap[op.c] = pre[op.c]

\* C21: contains(k) is true if and only if k is a section key or the mapping
\* stores k, and evaluating it leaves every mapping as it was.
C21_ContainsIffSectionOrStored ==
  op.name = "contains" =>
    /\ op.exc = "none"
    /\ op.ret = BoolV(BeginsUpperCase(op.k) \/ op.k \in DOMAIN pre[op.c])
    /\ heap = pre

\* C23: a key is a section key if and only if its first character is an
\* upper-case letter (such a key does not begin with '_'); a key that begins
\* with a lower-case letter, a digit or another non-letter is none.
C23_SectionKeyIffUpperCaseLetter ==
  op.name = "is_section_key" =>
    /\ op.exc = "none"
    /\ op.ret = BoolV(BeginsUpperCase(op.k))

\* ------------------------------------------------------------------ further claims on merge
\* The keys under which A held a leaf and B a Config when the last call
\* started.
LeafUnderConfigKeys ==
  { k \in DOMAIN pre[op.c] \cap DOMAIN pre[op.b] :
      ~IsConfig(pre[op.c][k]) /\ IsConfig(pre[op.b][k]) }

\* C22: when A holds a leaf under a key under which B holds a Config,
\* A.merge(B) returns and A then holds B's value under that key.
C22_ConfigOverwritesLeaf ==
  (op.name = "merge" /\ LeafUnderConfigKeys # {})
    => /\ op.exc = "none"
       /\ \A k \in LeafUnderConfigKeys : heap[op.c][k] = pre[op.b][k]

\* ------------------------------------------------------------------ further claims on the key=value loader
\* The last token of the last load_config call is a flag of the flags table
\* whose payload is no mapping of sections, the tokens before it being
\* processed without error.
LastIsBadPayloadFlag ==
  /\ op.name = "kvload"
  /\ op.p # <<>>
  /\ ~kv_pattern(LastToken)
  /\ flag_pattern(LastToken)
  /\ SubSeq(LastToken, 3, Len(LastToken)) \in DOMAIN flags
  /\ flags[SubSeq(LastToken, 3, Len(LastToken))].kind # "dict"
  /\ BeforeLast.out.exc = "none"

\* C24: a flag of the flags table whose payload is no mapping of sections
\* makes load_config fail with the invalid-flag ValueError, and the config and
\* the extra-args list stay what the tokens before it produced.
C24_BadPayloadFlagFails ==
  LastIsBadPayloadFlag
    => /\ kvres.state = "raised"
       /\ kvres.exc = "ValueError"
       /\ StateIsAfterPrefix(Len(op.p) - 1)

\* ------------------------------------------------------------------ claims on the argparse loader
\* The config value that holds the value of each of the first n pairs at the
\* pair's dotted name, and nothing else.
RECURSIVE TreeOfPairs(_, _)
TreeOfPairs(data, n) ==
  IF n = 0 THEN TreeV(EmptyDict)
  ELSE PutTree(TreeOfPairs(data, n - 1), SplitDots(data[n].name), data[n].v)

\* C25: load_config of the argparse loader returns a config that holds, for
\* every name/value pair the parser produces for the tokens, the value at the
\* name's dotted path and nothing else, and get_extra_args then gives the
\* parser's list of unconsumed tokens; before any load it gives the empty
\* list. The names are paths a config can be assigned at.
C25_ParsedPairsLoaded ==
  /\ (op.name = "get_extra_args" /\ kvres.state = "idle") => op.p = <<>>
  /\ (/\ op.name = "apload"
      /\ \A i \in 1..Len(parse_known_args(op.p).data) :
           AssignablePath(SplitDots(parse_known_args(op.p).data[i].name)))
       => /\ kvres.state = "returned"
          /\ TreeOf(heap, kvcfg) =
               TreeOfPairs(parse_known_args(op.p).data, Len(parse_known_args(op.p).data))
          /\ get_extra_args = parse_known_args(op.p).extra

\* ------------------------------------------------------------------ claims on nested loads
\* File f has a load_subconfig statement for file g, with no profile.
Includes(f, g) == \E i \in DOMAIN files[f] : files[f][i] = Load(g, "")

\* No file on the search path includes itself, directly or through the other.
AcyclicIncludes ==
  /\ \A f \in OnPath : ~Includes(f, f)
  /\ ~(Includes("base.py", "child.py") /\ Includes("child.py", "base.py"))

\* A file is being loaded inside its own load.
InsideOwnLoad ==
  \E i, j \in DOMAIN stack : i < j /\ stack[i].file = stack[j].file

\* C26: nested load_subconfig calls run depth-first in the caller's thread (a
\* step changes no script below the innermost two), a load_config whose
\* include graph has no cycle ends by returning a config or raising, and a
\* load that has entered a file inside that file's own load never returns a
\* config.
C26_IncludesTerminateUnlessCyclic ==
  /\ [][\A i \in DOMAIN stack :
          (i < Len(stack) - 1 /\ i < Len(stack')) => stack'[i] = stack[i]]_vars
  /\ (AcyclicIncludes => <>(fstate \in { "returned", "raised" }))
  /\ [](InsideOwnLoad => [](fstate # "returned"))

\* C26 witness: a load that had entered a file inside its own load went on
\* nesting until the interpreter's stack was used up, and raised.
C26_Witness ==
  /\ op.name = "fsub_depth"
  /\ fstate = "raised"
  /\ fres.exc = "RuntimeError"
  /\ Includes(fres.file, fres.file)

\* ------------------------------------------------------------------ claims on the order of tokens
\* A flag of the table whose payload is a mapping of sections.
IsDictFlag(item) ==
  /\ ~kv_pattern(item)
  /\ flag_pattern(item)
  /\ SubSeq(item, 3, Len(item)) \in DOMAIN flags
  /\ flags[SubSeq(item, 3, Len(item))].kind = "dict"

\* A token that writes: an assignment of a literal to an assignable path, or
\* such a flag.
IsWriter(item) ==
  \/ IsLiteralAssignment(item) /\ AssignablePath(TokPath(item))
  \/ IsDictFlag(item)

\* The paths a writer writes, each with the value it writes there.
Writes(item) ==
  IF kv_pattern(item)
  THEN { [path |-> TokPath(item), t |-> LeafT(LiteralValue(TokRhs(item)))] }
  ELSE UNION { { [path |-> << flags[SubSeq(item, 3, Len(item))].secs[i].sec, k >>,
                  t |-> Tree(heap, flags[SubSeq(item, 3, Len(item))].secs[i].d[k], MaxObj + 1)] :
                 k \in DOMAIN flags[SubSeq(item, 3, Len(item))].secs[i].d } :
               i \in DOMAIN flags[SubSeq(item, 3, Len(item))].secs }

\* Two paths of which one leads to or through the other.
Overlap(p, q) ==
  IF Len(p) <= Len(q) THEN SubSeq(q, 1, Len(p)) = p ELSE SubSeq(p, 1, Len(q)) = q

WriteDisjoint(a, b) ==
  \A w1 \in Writes(a), w2 \in Writes(b) : ~Overlap(w1.path, w2.path)

\* The config value t after a writer.
Effect(t, item) ==
  IF kv_pattern(item) THEN PutTree(t, TokPath(item), LiteralValue(TokRhs(item)))
  ELSE PayloadPut(t, flags[SubSeq(item, 3, Len(item))].secs, 1)

\* The config value after the first n tokens, taken in input order.
RECURSIVE EffectOfTokens(_, _)
EffectOfTokens(argv, n) ==
  IF n = 0 THEN TreeV(EmptyDict) ELSE Effect(EffectOfTokens(argv, n - 1), argv[n])

\* What the config value t holds at path.
AbsentT == [t |-> "absent", n |-> 0, s |-> <<>>, d |-> EmptyDict]
RECURSIVE SubTree(_, _)
SubTree(t, path) ==
  IF path = <<>> THEN t
  ELSE IF t.t = "tree" /\ path[1] \in DOMAIN t.d THEN SubTree(t.d[path[1]], Tail(path))
  ELSE AbsentT

\* The token list with its i-th and (i+1)-th token exchanged.
Swap(argv, i) ==
  [j \in 1..Len(argv) |->
     IF j = i THEN argv[i + 1] ELSE IF j = i + 1 THEN argv[i] ELSE argv[j]]

\* load_config has run on a list of writers.
WritersLoaded ==
  /\ op.name = "kvload"
  /\ op.p # <<>>
  /\ \A i \in 1..Len(op.p) : IsWriter(op.p[i])

AssignsIn(f, p) == { n \in DOMAIN files[f] : files[f][n].k = "assign" /\ files[f][n].path = p }
LastAssigned(f, p) ==
  files[f][CHOOSE n \in AssignsIn(f, p) : \A m \in AssignsIn(f, p) : m <= n].v

\* Statement i of the parent script loads a sub-config that assigns p, and no
\* later statement loads one that does.
LastLoadAssigning(i, p) ==
  /\ BaseScript[i].k = "load"
  /\ AssignsIn(BaseScript[i].f, p) # {}
  /\ \A j \in DOMAIN BaseScript :
       (j > i /\ BaseScript[j].k = "load") => AssignsIn(BaseScript[j].f, p) = {}

\* C28: when a script has loaded sub-configs one after the other, its config
\* holds for every leaf the value of the sub-config loaded last among those
\* that assign it: of two that assign the same leaf the second one's value,
\* and a leaf only the first assigned is kept.
C28_SecondSubconfigWins ==
  BaseReturned =>
    \A p \in LeafPaths : \A i \in DOMAIN BaseScript :
      LastLoadAssigning(i, p)
        => ReadPath(heap, fres.cfg, p) = LastAssigned(BaseScript[i].f, p)

\* C28 witness: the script loaded child.py, which sets A.x and A.y, and then
\* other.py, which sets A.x: A.x is other.py's and A.y child.py's.
C28_Witness ==
  /\ BaseReturned
  /\ BaseScript = << Load("child.py", ""), Load("other.py", "") >>
  /\ ChildScript = << Assign(PathAx, IntV(2)), Assign(PathAy, IntV(2)) >>
  /\ files["other.py"] = << Assign(PathAx, IntV(3)) >>
  /\ ReadPath(heap, fres.cfg, PathAx) = IntV(3)
  /\ ReadPath(heap, fres.cfg, PathAy) = IntV(2)

\* ------------------------------------------------------------------ claims on instances after a merge
\* The Configs stored under a section key of a Config nested in a, a included.
UnderSectionKeys(h, a) ==
  UNION { { h[m][k].n :
              k \in { x \in DOMAIN h[m] : x # <<>> /\ _is_section_key(x) /\ IsConfig(h[m][x]) } } :
          m \in Reach(h, a) }

\* Every Config nested in a is stored under a section key.
SectionsOnly(h, a) ==
  \A m \in Reach(h, a) : \A k \in DOMAIN h[m] :
    IsConfig(h[m][k]) => (k # <<>> /\ _is_section_key(k))

\* Configs a and b have no Config object in common.
Apart(h, a, b) == Reach(h, a) \cap Reach(h, b) = {}

\* C29 (as stated): after A.merge(B) no Config stored under a section key of
\* A, at any depth, is a Config nested in B.
C29_NoSharedSectionAsStated ==
  (op.name = "merge" /\ op.exc = "none" /\ op.c # op.b)
    => UnderSectionKeys(heap, op.c) \cap (Reach(heap, op.b) \ { op.b }) = {}

\* A merge of B into A has returned; before it the two had no Config object in
\* common and every Config nested in B was stored under a section key.
MergedApart ==
  /\ op.name = "merge"
  /\ op.exc = "none"
  /\ Apart(pre, op.c, op.b)
  /\ SectionsOnly(pre, op.b)

\* C29 (amended): when A and B have no Config object in common and every
\* Config nested in B is stored under a section key, then after A.merge(B) the
\* two still have no Config object in common, also for the sections A lacked;
\* and a set or a get (also an auto-vivifying one) on a Config, be it A, B or
\* a section of one of them, leaves unchanged every config that has no Config
\* object in common with it, and leaves the two without one.
C29_NoSharedSection ==
  /\ [](MergedApart => Apart(heap, op.c, op.b))
  /\ [][op'.name \in { "set", "get", "assign" } =>
          \A b \in Live :
            Apart(heap, op'.c, b)
              => /\ \A n \in Reach(heap, b) : heap'[n] = heap[n]
                 /\ Apart(heap', op'.c, b)]_vars

\* C29 witness: B had a section with content that A lacked; after the merge A
\* has that section with the same content in a Config of its own.
C29_Witness ==
  /\ MergedApart
  /\ \E k \in DOMAIN pre[op.b] \ DOMAIN pre[op.c] :
       /\ IsConfig(pre[op.b][k])
       /\ pre[pre[op.b][k].n] # EmptyDict
       /\ k \in DOMAIN heap[op.c]
       /\ IsConfig(heap[op.c][k])
       /\ heap[op.c][k].n # pre[op.b][k].n
       /\ heap[heap[op.c][k].n] = pre[pre[op.b][k].n]

\* ------------------------------------------------------------------ claims on the isolation of sub-configs
\* The step changes a Config of the config of the i-th script of the stack.
ChangesConfigOf(i) == \E n \in Reach(heap, stack[i].cfg) : heap'[n] # heap[n]

\* C30: a sub-config script is isolated from its parent. The config
\* get_config() gives it is its loader's own: empty at the start and with no
\* object in common with the parent's. While a sub-config runs, no step
\* changes the config of a script below it, except the one merge into its
\* parent, made when the sub-config's script has come to its end, with which
\* the sub-config's load is over; a step that raises in a sub-config changes
\* no config of the scripts below, so a failed sub-config contributes nothing.
C30_SubconfigIsolated ==
  /\ [](op.name = "fsub_push"
          => /\ heap[Top.cfg] = EmptyDict
             /\ Apart(heap, Top.cfg, Parent.cfg))
  /\ [][\A i \in DOMAIN stack :
          (i < Len(stack) /\ ChangesConfigOf(i))
            => /\ i = Len(stack) - 1
               /\ ~AtStmt
               /\ op'.name \in { "fmerge", "fmerge_raise" }
               /\ op'.c = stack[i].cfg
               /\ op'.b = Top.cfg
               /\ Len(stack') < Len(stack)]_vars
  /\ [][(Len(stack) >= 2 /\ op'.exc # "none")
          => \A i \in 1..(Len(stack) - 1) : ~ChangesConfigOf(i)]_vars

\* C30 witness: the parent had assigned a leaf and loaded a sub-config that
\* assigned and then raised IOError; the parent's script goes on and its
\* config holds what it held before the load.
C30_Witness ==
  /\ op.name = "fraise"
  /\ op.exc = "IOError"
  /\ fstate = "running"
  /\ Len(stack) = 1
  /\ BaseScript = << Assign(PathAx, IntV(1)), Load("child.py", "") >>
  /\ ChildScript = << Assign(PathAy, IntV(2)), Raise("IOError") >>
  /\ TreeOf(heap, Top.cfg) = PutTree(TreeV(EmptyDict), PathAx, IntV(1))

====
